---- MODULE Spec2Model ----
(***************************************************************************)
(* MiniTelemetry: the ThreadSafeQueue (src/core/thread_safe_queue.h) and    *)
(* the sensor hub built on it (src/apps/sensor_hub.cpp).                    *)
(*                                                                          *)
(* Every thread is a program counter pc[t]; one action is one atomic step   *)
(* of the code (a mutex acquisition, a critical section, an atomic store,   *)
(* a condition-variable operation).  The queue's operations are written     *)
(* once, with the calling thread as parameter, and are used by two          *)
(* programs:                                                                *)
(*   SpecQ    client threads calling push / pop / stop in any interleaving  *)
(*            (the shape of the queue tests),                               *)
(*   SpecHub  the sensor hub: three generator threads, the publisher loop   *)
(*            of main, the signal handler and the duration timeout,         *)
(*   SpecMon  the monitor (src/apps/logger.cpp) in its two variants and the *)
(*            tracker of tests/test_end_to_end.cpp, fed any tuples.         *)
(***************************************************************************)
EXTENDS Integers, Sequences, FiniteSets, TLC

VARIABLES
    queue_,              \* ThreadSafeQueue::queue_ (front is element 1)
    mutex_,              \* ThreadSafeQueue::mutex_: the thread holding it, or NoThread
    stopped_,            \* ThreadSafeQueue::stopped_
    pc,                  \* position of every thread
    value,               \* the consumer's out-parameter of pop()
    ret,                 \* the value returned by the consumer's last pop()
    \* ---- queue clients (SpecQ) -------------------------------------------
    pushCount,           \* per producer: push() calls made so far
    popCalls,            \* pop() calls made by the consumer
    stopCalls,           \* stop() calls made by the stopper
    stopReturned,        \* a stop() call has returned
    afterStop,           \* per thread: its current call began after a stop() returned
    inserted,            \* history: items in the order queue_.push() inserted them
    received,            \* history: items the consumer got from pop() == true
    atStop,              \* history: queue_ when stopped_ became true
    \* ---- sensor hub (SpecHub) --------------------------------------------
    g_running,           \* std::atomic<bool> g_running
    g_sensor_sequences,  \* std::map<int, uint64_t> g_sensor_sequences
    sequence,            \* main's local uint64_t sequence
    generated,           \* per sensor: readings generated so far
    published,           \* history: records handed to dds_write
    writes,              \* history: dds_write calls made
    timed,               \* run_duration_sec > 0 was configured
    joined,              \* sensor threads main has joined
    caught,              \* history: a signal arrived with every generator asleep and
                         \* main suspended in pop()
    \* ---- monitor and tracker (SpecMon) ----------------------------------
    g_sensors_naive,     \* std::map<int, SensorState> g_sensors of the naive monitor
    g_sensors_seen,      \* std::map<int, SensorState> g_sensors of the seen-set monitor
    trackers,            \* std::map<int, SimpleSensorTracker> trackers of the test
    msg,                 \* the tuple decoded from the sample taken last
    feed,                \* history: the tuples taken so far, in order
    payload,             \* msg.payload of the sample taken last
    warnings,            \* history: the warnings the naive monitor has printed
    parse_errors,        \* history: "Failed to parse message" lines it has printed
    now_ms,              \* the monitor's clock, get_current_time_ms()
    sleeps,              \* sleep_for calls the monitor loop has made
    g_last_dashboard_ms, \* naive monitor: time of the last dashboard
    g_last_print_ms,     \* seen-set monitor: time of the last dashboard
    data_updated,        \* seen-set monitor: main's local data_updated
    g_first_print,       \* seen-set monitor: g_first_print
    dashboard_naive,     \* the rows the naive monitor's dashboard printed last
    dashboard_seen,      \* the rows the seen-set monitor's dashboard printed last
    summary,             \* the rows of the final summaries, once printed
    average,             \* the result of the tracker's last get_average()
    \* ---- CSV logger (SpecLog) --------------------------------------------
    taken,               \* history: the samples the logger has taken, in order
    csv_file,            \* the data rows written to the stream csv_file, in order
    flushed,             \* how many of them a flush has handed to the file
    g_total_logged,      \* std::atomic<uint64_t> g_total_logged
    last_flush,          \* main's local last_flush
    log_ms,              \* the logger's clock, steady_clock::now()
    exited,              \* the logger's main has returned
    log_pc,              \* the statement the logger's main is at
    csv_open,            \* the stream csv_file: "unopened", "open", "failed" or "closed"
    csv_header,          \* history: per header line written, the data rows in front of it
    entities,            \* the DDS entities that exist
    exit_status,         \* the value main returned, NoStatus before it returns
    \* ---- pipeline test (SpecTest) ----------------------------------------
    fill,                \* sensor_id and seq of the loops that fill the queue
    messages,            \* messages pushed per sensor (10 in the test)
    sequences,           \* uint64_t sequences[3]
    processed            \* int processed

qvars   == <<queue_, mutex_, stopped_, value, ret>>
cvars   == <<pushCount, popCalls, stopCalls, stopReturned, afterStop, inserted, received,
             atStop>>
hvars   == <<g_running, g_sensor_sequences, sequence, generated,
             published, writes, timed, joined, caught>>
svars   == <<g_sensors_naive, g_sensors_seen, trackers>>
dvars   == <<g_last_dashboard_ms, g_last_print_ms, data_updated, g_first_print,
             dashboard_naive, dashboard_seen, summary, average>>
mvars   == <<g_sensors_naive, g_sensors_seen, trackers, msg, feed, payload, warnings,
             parse_errors, now_ms, sleeps, dvars>>
lvars   == <<taken, csv_file, flushed, g_total_logged, last_flush, log_ms, exited,
             log_pc, csv_open, csv_header, entities, exit_status>>
tvars   == <<fill, messages, sequences, processed>>
vars    == <<queue_, mutex_, stopped_, pc, value, ret,
             pushCount, popCalls, stopCalls, stopReturned, afterStop, inserted, received,
             atStop, g_running, g_sensor_sequences, sequence, generated,
             published, writes, timed, joined, caught,
             g_sensors_naive, g_sensors_seen, trackers, msg, feed, payload, warnings,
             parse_errors, now_ms, sleeps, g_last_dashboard_ms, g_last_print_ms, data_updated,
             g_first_print, dashboard_naive, dashboard_seen, summary, average,
             taken, csv_file, flushed, g_total_logged, last_flush, log_ms, exited,
             log_pc, csv_open, csv_header, entities, exit_status,
             fill, messages, sequences, processed>>

----------------------------------------------------------------------------
(* Bounds of the model.                                                     *)
MaxItems    == 3    \* push() calls the producers make in all
MaxPops     == 4    \* pop() calls the consumer makes
MaxStops    == 2    \* stop() calls the stopper makes
MaxReadings == 3    \* readings the generators produce in all
MaxTaken    == 3    \* tuples the monitor takes in all
MaxU64      == 7    \* the largest uint64_t: arithmetic wraps modulo MaxU64 + 1
MaxIterations == 3  \* iterations of the monitor's loop that reach the sleep
MaxLogged   == 4    \* samples the logger takes in all
MaxLoopMs   == 600  \* the longest one pass through the logger's loop takes
MaxMessages == 3    \* messages per sensor the pipeline test pushes

(* Program constants.                                                       *)
NumSensors  == 3    \* sensor_hub.cpp: for(int i = 0; i < 3; ++i)
TestSensors == 3    \* test_end_to_end.cpp: for (int sensor_id = 0; sensor_id < 3; ...)

----------------------------------------------------------------------------
(* Threads.                                                                 *)
NoThread      == "none"
Producers     == {"p1", "p2"}
Consumer      == "cons"
Stopper       == "stopper"
SensorIds     == 0 .. (NumSensors - 1)
SensorThread  == [i \in SensorIds |-> <<"sensor0", "sensor1", "sensor2">>[i + 1]]
SensorThreads == {SensorThread[i] : i \in SensorIds}
Main          == "main"
Sig           == "sig"
Tester        == "tester"
Threads       == Producers \cup {Consumer, Stopper} \cup SensorThreads \cup {Main, Sig, Tester}

NoItem == [id |-> "none", n |-> 0]

(* main: SensorData incoming_data;  before the first successful pop()        *)
NoReading == [id |-> -1, n |-> 0]

(* Positions inside pop().                                                  *)
InsidePop == {"pop_lock", "pop_check", "pop_block", "pop_parked", "pop_woken",
              "pop_test", "pop_fail", "pop_take"}
(* Positions in which pop() is suspended on, or about to suspend on,        *)
(* cond_var_.                                                               *)
Blocking  == {"pop_block", "pop_parked", "pop_woken"}

Goto(t, l) == [pc EXCEPT ![t] = l]

----------------------------------------------------------------------------
(* The monitor (src/apps/logger.cpp, in its two variants) and the tracker   *)
(* of the end-to-end test: per-source state and the update each of them     *)
(* makes for one tuple.                                                     *)

(* uint64_t arithmetic                                                      *)
Wrap(x) == x % (MaxU64 + 1)

Sources == {0, 1}          \* values of the "id" field
Values  == {20, 25}        \* values of the "value" field

NoMsg == [id |-> -1, value |-> 0, timestamp |-> 0, sequence |-> 0]

(* A sample as dds_take hands it over.  kind tells what msg.payload is: no  *)
(* sample at all, a NULL pointer, text that is not JSON, or a JSON object,  *)
(* whose members obj holds as <<key, value>> pairs.                         *)
Fields      == {"id", "value", "timestamp", "sequence"}
NoSample    == [kind |-> "none", obj |-> {}]
NullPayload == [kind |-> "null", obj |-> {}]
Garbage     == [kind |-> "text", obj |-> {}]
Json(obj)   == [kind |-> "json", obj |-> obj]

(* Faulty variant of Encode: the sequence is written under the key of the   *)
(* timestamp and the timestamp under that of the sequence                   *)
EncodeSwapped(m) ==
    Json({<<"id", m.id>>, <<"value", m.value>>, <<"timestamp", m.sequence>>,
          <<"sequence", m.timestamp>>})

(* sensor_hub: j["id"] = ..; j["value"] = ..; j["timestamp"] = ..;          *)
(* j["sequence"] = ..; msg.payload = j.dump()                               *)
Encode(m) ==
    Json({<<"id", m.id>>, <<"value", m.value>>, <<"timestamp", m.timestamp>>,
          <<"sequence", m.sequence>>})

(* a JSON object that lacks the member k                                    *)
Without(p, k) == Json({pr \in p.obj : pr[1] # k})

(* nlohmann::json::parse(msg.payload) returns                               *)
Parses(p) == p.kind = "json"
(* j[k] converts to a number: the member exists                             *)
Has(p, k) == \E pr \in p.obj : pr[1] = k
Get(p, k) == (CHOOSE pr \in p.obj : pr[1] = k)[2]

(* the try block reaches the statement after the four extractions           *)
Decodes(p) == Parses(p) /\ \A k \in Fields : Has(p, k)

(* a JSON integer read into a uint64_t: the hub's timestamp is a long, and  *)
(* a negative one is converted by wrap-around                               *)
AsUnsigned(x) == IF x >= 0 THEN x ELSE Wrap(x)

Decode(p) ==
    [id |-> Get(p, "id"), value |-> Get(p, "value"),
     timestamp |-> AsUnsigned(Get(p, "timestamp")),
     sequence |-> AsUnsigned(Get(p, "sequence"))]

(* Faulty variant of Throws: an iteration without a sample is reported as   *)
(* an error                                                                 *)
ThrowsWithoutSample(p) == p.kind # "null" /\ ~Decodes(p)

(* the catch block is entered: there is a payload and the try block does    *)
(* not get past the extractions                                             *)
Throws(p) == p.kind \in {"text", "json"} /\ ~Decodes(p)

(* get_current_time_ms() when the monitor starts                            *)
StartMs == 1000
DASHBOARD_REFRESH_MS == 2000
REFRESH_INTERVAL_MS  == 200

(* a division, kept unevaluated so that its divisor can be inspected        *)
Quotient(a, b) == [num |-> a, den |-> b]
(* the literal 0.0                                                          *)
Zero == Quotient(0, 1)

(* struct SensorState of the naive monitor, default-constructed             *)
SensorStateNaive ==
    [expected_seq |-> 0, message_count |-> 0, dropped_count |-> 0,
     current_value |-> 0, min_value |-> 10^9, max_value |-> -(10^9), sum_value |-> 0,
     last_timestamp |-> 0, initialized |-> FALSE]

(* struct SensorState of the seen-set monitor, default-constructed          *)
SensorStateSeen ==
    [expected_seq |-> 0, message_count |-> 0, dropped_count |-> 0,
     current_value |-> 0, min_value |-> 10^9, max_value |-> -(10^9), sum_value |-> 0,
     last_timestamp |-> 0, last_received_ms |-> 0, initialized |-> FALSE,
     seen_sequences |-> {}]

(* struct SimpleSensorTracker, default-constructed                          *)
TrackerNew ==
    [expected_seq |-> 0, message_count |-> 0, dropped_count |-> 0, sum_value |-> 0]

(* std::map operator[] : the entry of id, default-constructed if absent     *)
At(map, id, new) == IF id \in DOMAIN map THEN map[id] ELSE new

(* Faulty variant of Put: the other entries are lost                        *)
PutAlone(map, id, st) == [k \in {id} |-> st]

(* the map after the entry of id, created if absent, has been set to st     *)
Put(map, id, st) ==
    [k \in DOMAIN map \cup {id} |-> IF k = id THEN st ELSE map[k]]

(* Faulty variants of the definitions below.                                *)
DroppedInclusive(seq, expected)      == Wrap(seq - expected + 1)  \* counts the received one
ExpectedAfterSame(seq)               == seq       \* expected_seq = sequence
IsDuplicateNever(state, seq)         == FALSE     \* the seen-set test left out
FirstCounted(started, seq, expected) == seq # expected   \* no baseline for the first
(* a discarded tuple is still counted                                       *)
SeenDiscardCounted(state, seq) == [state EXCEPT !.message_count = Wrap(@ + 1)]

(* Faulty variant of Dropped: the tuple received is taken for a lost one     *)
DroppedAndReceived(seq, expected) == Wrap(seq - expected + 2)

(* uint64_t dropped = sequence - state.expected_seq;                        *)
Dropped(seq, expected) == Wrap(seq - expected)

(* state.expected_seq = sequence + 1;                                       *)
ExpectedAfter(seq) == Wrap(seq + 1)

(* the test that guards the gap computation: the source has a baseline and  *)
(* the sequence is not the expected one                                     *)
IsGap(started, seq, expected) == started /\ seq # expected

(* Faulty variant of NaiveUpdate: max_value is never raised                 *)
NaiveUpdateMaxForgotten(state, m) ==
    [state EXCEPT
       !.initialized    = TRUE,
       !.expected_seq   = ExpectedAfter(m.sequence),
       !.message_count  = Wrap(@ + 1),
       !.current_value  = m.value,
       !.last_timestamp = m.timestamp,
       !.min_value      = IF m.value < @ THEN m.value ELSE @,
       !.sum_value      = @ + m.value]

(* naive monitor: the block under g_sensor_mutex for one decoded tuple m    *)
NaiveUpdate(state, m) ==
    [state EXCEPT
       !.initialized    = TRUE,
       !.dropped_count  = IF IsGap(state.initialized, m.sequence, state.expected_seq)
                            THEN Wrap(@ + Dropped(m.sequence, state.expected_seq))
                            ELSE @,
       !.expected_seq   = ExpectedAfter(m.sequence),
       !.message_count  = Wrap(@ + 1),
       !.current_value  = m.value,
       !.last_timestamp = m.timestamp,
       !.min_value      = IF m.value < @ THEN m.value ELSE @,
       !.max_value      = IF m.value > @ THEN m.value ELSE @,
       !.sum_value      = @ + m.value]

(* seen-set monitor: if (state.seen_sequences.count(sequence) > 0)          *)
IsDuplicate(state, seq) == seq \in state.seen_sequences

(* seen-set monitor: seen_sequences.insert(sequence) and the statements     *)
(* that follow it, for a tuple that is not discarded                        *)
SeenAccept(state, m) ==
    [state EXCEPT
       !.seen_sequences   = @ \cup {m.sequence},
       !.initialized      = TRUE,
       !.dropped_count    = IF IsGap(state.initialized, m.sequence, state.expected_seq)
                              THEN Wrap(@ + Dropped(m.sequence, state.expected_seq))
                              ELSE @,
       !.expected_seq     = ExpectedAfter(m.sequence),
       !.message_count    = Wrap(@ + 1),
       !.current_value    = m.value,
       !.last_timestamp   = m.timestamp,
       !.last_received_ms = m.timestamp,
       !.min_value        = IF m.value < @ THEN m.value ELSE @,
       !.max_value        = IF m.value > @ THEN m.value ELSE @,
       !.sum_value        = @ + m.value]

(* seen-set monitor: a tuple whose sequence was seen is dropped by the      *)
(* continue, before any statement that changes the state                    *)
SeenDiscard(state, seq) == state

(* seen-set monitor: the block under g_sensor_mutex for one decoded tuple m *)
SeenUpdate(state, m) ==
    IF IsDuplicate(state, m.sequence)
      THEN SeenDiscard(state, m.sequence)
      ELSE SeenAccept(state, m)

(* Faulty variant of process_message: the test for the first message is     *)
(* left out                                                                 *)
process_message_unguarded(t, m) ==
    [t EXCEPT
       !.dropped_count = IF m.sequence # t.expected_seq
                           THEN Wrap(@ + Dropped(m.sequence, t.expected_seq))
                           ELSE @,
       !.expected_seq  = ExpectedAfter(m.sequence),
       !.message_count = Wrap(@ + 1),
       !.sum_value     = @ + m.value]

(* SimpleSensorTracker::process_message(data, sequence)                     *)
process_message(t, m) ==
    [t EXCEPT
       !.dropped_count = IF IsGap(t.message_count > 0, m.sequence, t.expected_seq)
                           THEN Wrap(@ + Dropped(m.sequence, t.expected_seq))
                           ELSE @,
       !.expected_seq  = ExpectedAfter(m.sequence),
       !.message_count = Wrap(@ + 1),
       !.sum_value     = @ + m.value]

(* Faulty variants of the definitions below.                                *)
(* the entry is looked up before the fields have all been extracted         *)
RejectedAfterLookup(map, p, new) ==
    IF Parses(p) /\ Has(p, "id") THEN Put(map, Get(p, "id"), At(map, Get(p, "id"), new))
                                 ELSE map
(* the conditional in front of the division left out                        *)
get_average_unguarded(t) == Quotient(t.sum_value, t.message_count)
(* the dashboard resets what it has shown                                   *)
AfterPrintReset(map) == [k \in DOMAIN map |-> [map[k] EXCEPT !.sum_value = 0]]

(* g_sensors after the try block has thrown on p: parse and the four        *)
(* extractions come before g_sensors[sensor_id]                             *)
Rejected(map, p, new) == map

(* the "[WARNING] ... Dropped" line of the naive monitor, if it prints one  *)
NaiveWarnings(state, m) ==
    IF IsGap(state.initialized, m.sequence, state.expected_seq)
      THEN {[kind |-> "dropped", id |-> m.id, at |-> m.timestamp,
             count |-> Dropped(m.sequence, state.expected_seq)]}
      ELSE {}

(* SimpleSensorTracker::get_average()                                       *)
get_average(t) ==
    IF t.message_count > 0 THEN Quotient(t.sum_value, t.message_count) ELSE Zero

(* one row of a dashboard or of a final summary                             *)
Row(id, state, avg) ==
    [id |-> id, value |-> state.current_value, min |-> state.min_value,
     max |-> state.max_value, avg |-> avg, count |-> state.message_count,
     dropped |-> state.dropped_count]

(* print_dashboard, both variants: bool has_data                            *)
HasData(map) == \E id \in DOMAIN map : map[id].message_count > 0

(* print_dashboard, both variants: the loop that prints the rows, which     *)
(* skips a source without data before it divides                            *)
DashboardRows(map) ==
    {Row(id, map[id], Quotient(map[id].sum_value, map[id].message_count)) :
        id \in {k \in DOMAIN map : map[k].message_count # 0}}

(* naive monitor, final summary: the average is guarded by a conditional    *)
SummaryRowsNaive(map) ==
    {Row(id, map[id],
         IF map[id].message_count > 0
           THEN Quotient(map[id].sum_value, map[id].message_count)
           ELSE Zero) : id \in DOMAIN map}

(* seen-set monitor, final summary: a source without data is skipped        *)
SummaryRowsSeen(map) ==
    {Row(id, map[id], Quotient(map[id].sum_value, map[id].message_count)) :
        id \in {k \in DOMAIN map : map[k].message_count # 0}}

(* print_dashboard iterates over const references: g_sensors as the call    *)
(* leaves it                                                                *)
AfterPrint(map) == map

(* naive monitor, print_dashboard: the throttle at its head                 *)
Throttled(now) ==
    g_last_dashboard_ms > 0 /\ (now - g_last_dashboard_ms) < DASHBOARD_REFRESH_MS

(* seen-set monitor, main: the condition of the rate-limited print          *)
PrintDue(updated, now) == updated /\ (now - g_last_print_ms) >= REFRESH_INTERVAL_MS

(* One tuple arrives and is processed.  The naive monitor, the seen-set     *)
(* monitor and the test's tracker are run side by side on the same tuples,  *)
(* each making the update of its own code.  The timestamp is the tick of    *)
(* the delivery, which also serves as the monitor's clock reading.          *)
Deliver(id, seq, v) ==
    /\ Len(feed) < MaxTaken
    /\ msg' = [id |-> id, value |-> v, timestamp |-> Len(feed) + 1, sequence |-> seq]
    /\ feed' = Append(feed, msg')
    /\ g_sensors_naive' =
          Put(g_sensors_naive, id, NaiveUpdate(At(g_sensors_naive, id, SensorStateNaive), msg'))
    /\ g_sensors_seen' =
          Put(g_sensors_seen, id, SeenUpdate(At(g_sensors_seen, id, SensorStateSeen), msg'))
    /\ trackers' = Put(trackers, id, process_message(At(trackers, id, TrackerNew), msg'))
    /\ payload' = Encode(msg')
    /\ warnings' = warnings \cup NaiveWarnings(At(g_sensors_naive, id, SensorStateNaive), msg')
    /\ data_updated' = IF IsDuplicate(At(g_sensors_seen, id, SensorStateSeen), seq)
                          THEN data_updated
                          ELSE TRUE
    /\ UNCHANGED <<parse_errors, now_ms, sleeps, g_last_dashboard_ms, g_last_print_ms,
                   g_first_print, dashboard_naive, dashboard_seen, summary, average>>
    /\ UNCHANGED <<lvars, tvars, qvars, pc, pushCount, popCalls, stopCalls, stopReturned, afterStop,
                   inserted, received, atStop, g_running, g_sensor_sequences, sequence,
                   generated, published, writes, timed, joined, caught>>

(* One iteration of the monitor's main loop, from dds_take to sleep_for.    *)
(* p is the sample taken and d the time that passes until the next          *)
(* iteration begins: sleep_for returns after at least the time asked for.   *)
(* Both variants run side by side on the same samples, as does the test's   *)
(* tracker.  A NULL payload leaves the iteration by continue, in front of   *)
(* the dashboard and the sleep; so does a duplicate in the seen-set variant.*)
Iterate(p, d) ==
    LET ok      == Decodes(p)
        m       == Decode(p)
        naive0  == At(g_sensors_naive, m.id, SensorStateNaive)
        seen0   == At(g_sensors_seen, m.id, SensorStateSeen)
        dup     == ok /\ IsDuplicate(seen0, m.sequence)
        thrown  == Throws(p)
        naive1  == IF ok THEN Put(g_sensors_naive, m.id, NaiveUpdate(naive0, m))
                         ELSE Rejected(g_sensors_naive, p, SensorStateNaive)
        seen1   == IF ok THEN Put(g_sensors_seen, m.id, SeenUpdate(seen0, m))
                         ELSE Rejected(g_sensors_seen, p, SensorStateSeen)
        updated == IF ok /\ ~dup THEN TRUE ELSE data_updated
        null    == p.kind = "null"
        printsN == ~null /\ ~Throttled(now_ms)
        printsS == ~null /\ ~dup /\ PrintDue(updated, now_ms)
    IN
    /\ g_running
    /\ sleeps < MaxIterations
    /\ payload' = p
    /\ msg' = IF ok THEN m ELSE msg
    /\ feed' = IF ok THEN Append(feed, m) ELSE feed
    /\ warnings' = IF ok THEN warnings \cup NaiveWarnings(naive0, m) ELSE warnings
    /\ parse_errors' = IF thrown THEN parse_errors + 1 ELSE parse_errors
    /\ trackers' = IF ok
                     THEN Put(trackers, m.id, process_message(At(trackers, m.id, TrackerNew), m))
                     ELSE trackers
    /\ g_sensors_naive' = IF printsN THEN AfterPrint(naive1) ELSE naive1
    /\ g_last_dashboard_ms' = IF printsN THEN now_ms ELSE g_last_dashboard_ms
    /\ dashboard_naive' = IF printsN /\ HasData(naive1)
                            THEN DashboardRows(naive1)
                            ELSE dashboard_naive
    /\ g_sensors_seen' = IF printsS THEN AfterPrint(seen1) ELSE seen1
    /\ g_last_print_ms' = IF printsS THEN now_ms ELSE g_last_print_ms
    /\ data_updated' = IF printsS THEN FALSE ELSE updated
    /\ g_first_print' = IF printsS /\ HasData(seen1) THEN FALSE ELSE g_first_print
    /\ dashboard_seen' = IF printsS /\ HasData(seen1)
                           THEN DashboardRows(seen1)
                           ELSE dashboard_seen
    /\ now_ms' = IF null THEN now_ms ELSE now_ms + d
    /\ sleeps' = IF null THEN sleeps ELSE sleeps + 1
    /\ UNCHANGED <<summary, average>>
    /\ UNCHANGED <<lvars, tvars, qvars, pc, pushCount, popCalls, stopCalls, stopReturned, afterStop,
                   inserted, received, atStop, g_running, g_sensor_sequences, sequence,
                   generated, published, writes, timed, joined, caught>>

(* monitor, signal_handler: g_running = false                               *)
MonitorSignal ==
    /\ g_running
    /\ g_running' = FALSE
    /\ UNCHANGED <<mvars, lvars, tvars, qvars, pc, pushCount, popCalls, stopCalls, stopReturned,
                   afterStop, inserted, received, atStop, g_sensor_sequences, sequence,
                   generated, published, writes, timed, joined, caught>>

(* monitor main, after the loop: the final summary of either variant        *)
FinalSummary ==
    /\ ~g_running
    /\ ~summary.printed
    /\ summary' = [printed |-> TRUE,
                   naive |-> SummaryRowsNaive(g_sensors_naive),
                   seen |-> SummaryRowsSeen(g_sensors_seen)]
    /\ UNCHANGED <<svars, msg, feed, payload, warnings, parse_errors, now_ms, sleeps,
                   g_last_dashboard_ms, g_last_print_ms, data_updated, g_first_print,
                   dashboard_naive, dashboard_seen, average>>
    /\ UNCHANGED <<lvars, tvars, qvars, pc, pushCount, popCalls, stopCalls, stopReturned, afterStop,
                   inserted, received, atStop, g_running, g_sensor_sequences, sequence,
                   generated, published, writes, timed, joined, caught>>

(* the test: trackers[sensor_id].get_average(), where operator[] makes the  *)
(* tracker of a source that sent nothing                                    *)
GetAverage(id) ==
    /\ trackers' = Put(trackers, id, At(trackers, id, TrackerNew))
    /\ average' = [of |-> id, result |-> get_average(At(trackers, id, TrackerNew))]
    /\ UNCHANGED <<g_sensors_naive, g_sensors_seen, msg, feed, payload, warnings,
                   parse_errors, now_ms, sleeps, g_last_dashboard_ms, g_last_print_ms, data_updated,
                   g_first_print, dashboard_naive, dashboard_seen, summary>>
    /\ UNCHANGED <<lvars, tvars, qvars, pc, pushCount, popCalls, stopCalls, stopReturned, afterStop,
                   inserted, received, atStop, g_running, g_sensor_sequences, sequence,
                   generated, published, writes, timed, joined, caught>>

----------------------------------------------------------------------------
(* The CSV logger (src/apps/logger.cpp, its first program).                 *)

FLUSH_INTERVAL_MS == 1000

(* the time one pass through the loop takes: the 10 ms asked of sleep_for,  *)
(* or as long as MaxLoopMs; on the path that leaves the iteration by        *)
(* continue, the time a run of samples taken back to back takes             *)
LogMs == {10, MaxLoopMs}

(* Faulty variant of Written: the fields are written as they are extracted  *)
WrittenAsExtracted(rows, p, now) ==
    IF Parses(p) /\ Has(p, "timestamp") /\ Has(p, "id")
      THEN Append(rows, [timestamp |-> Get(p, "timestamp"), sensor_id |-> Get(p, "id"),
                         value |-> 0, sequence |-> 0, received_at |-> now])
      ELSE rows

(* csv_file after the try block has run on p: the row is written by one     *)
(* statement that follows the four extractions                              *)
Written(rows, p, now) ==
    IF Decodes(p)
      THEN Append(rows, [timestamp |-> Decode(p).timestamp, sensor_id |-> Decode(p).id,
                         value |-> Decode(p).value, sequence |-> Decode(p).sequence,
                         received_at |-> now])
      ELSE rows

(* if (elapsed > FLUSH_INTERVAL_MS)                                         *)
FlushDue(now) == now - last_flush > FLUSH_INTERVAL_MS

(* main has not returned                                                    *)
NoStatus == -1

(* Faulty variants of the definitions below.                                *)
(* the result of is_open() is not looked at                                 *)
AfterOpenUnchecked(ok) == "header"
(* every data row is followed by a header line                              *)
HeaderWithEveryRow(h, before, after) ==
    IF Len(after) > Len(before) THEN Append(h, Len(after)) ELSE h

(* if (!csv_file.is_open()) { ...; return 1; }                              *)
AfterOpen(ok) == IF ok THEN "header" ELSE "done"

(* csv_file << "timestamp,sensor_id,value,sequence,received_at\n";         *)
HeaderWritten(h, rows) == Append(h, Len(rows))

(* the header lines after an iteration of the loop, which writes data rows  *)
(* alone                                                                    *)
HeaderInLoop(h, before, after) == h

(* logger main: the argument loop; --help prints the usage and returns 0    *)
LogArgs(help) ==
    /\ log_pc = "args"
    /\ log_pc' = IF help THEN "done" ELSE "open"
    /\ exited' = help
    /\ exit_status' = IF help THEN 0 ELSE exit_status
    /\ UNCHANGED <<taken, csv_file, flushed, g_total_logged, last_flush, log_ms, csv_open,
                   csv_header, entities>>
    /\ UNCHANGED <<tvars, mvars, qvars, cvars, hvars, pc>>

(* std::ofstream csv_file(output_file); and the test of is_open()           *)
LogOpen(ok) ==
    /\ log_pc = "open"
    /\ csv_open' = IF ok THEN "open" ELSE "failed"
    /\ log_pc' = AfterOpen(ok)
    /\ exited' = (AfterOpen(ok) = "done")
    /\ exit_status' = IF AfterOpen(ok) = "done" THEN 1 ELSE exit_status
    /\ UNCHANGED <<taken, csv_file, flushed, g_total_logged, last_flush, log_ms, csv_header,
                   entities>>
    /\ UNCHANGED <<tvars, mvars, qvars, cvars, hvars, pc>>

(* the header line and its flush                                            *)
LogHeader ==
    /\ log_pc = "header"
    /\ csv_header' = HeaderWritten(csv_header, csv_file)
    /\ log_pc' = "participant"
    /\ UNCHANGED <<taken, csv_file, flushed, g_total_logged, last_flush, log_ms, exited,
                   csv_open, entities, exit_status>>
    /\ UNCHANGED <<tvars, mvars, qvars, cvars, hvars, pc>>

(* dds_create_participant, dds_create_topic, dds_create_reader: on failure  *)
(* the entities made so far are deleted, the file is closed and main        *)
(* returns 1; after the reader, last_flush is set and the loop begins       *)
LogCreate(ok) ==
    /\ log_pc \in {"participant", "topic", "reader"}
    /\ entities' = IF ok THEN entities \cup {log_pc} ELSE {}
    /\ csv_open' = IF ok THEN csv_open ELSE "closed"
    /\ log_pc' = IF ~ok THEN "done"
                 ELSE IF log_pc = "participant" THEN "topic"
                 ELSE IF log_pc = "topic" THEN "reader" ELSE "loop"
    /\ exited' = ~ok
    /\ exit_status' = IF ok THEN exit_status ELSE 1
    /\ last_flush' = IF ok /\ log_pc = "reader" THEN log_ms ELSE last_flush
    /\ UNCHANGED <<taken, csv_file, flushed, g_total_logged, log_ms, csv_header>>
    /\ UNCHANGED <<tvars, mvars, qvars, cvars, hvars, pc>>

(* One iteration of the logger's loop on the sample p; d is the time that   *)
(* passes until the next iteration begins.  A NULL payload leaves the       *)
(* iteration by continue, in front of the flush and the sleep.              *)
LogIterate(p, d) ==
    LET null == p.kind = "null"
        rows == IF null THEN csv_file ELSE Written(csv_file, p, log_ms)
    IN
    /\ log_pc = "loop"
    /\ g_running
    /\ ~exited
    /\ Len(taken) < MaxLogged
    /\ taken' = Append(taken, p)
    /\ csv_file' = rows
    /\ csv_header' = HeaderInLoop(csv_header, csv_file, rows)
    /\ g_total_logged' = IF Decodes(p) THEN Wrap(g_total_logged + 1) ELSE g_total_logged
    /\ flushed' = IF ~null /\ FlushDue(log_ms) THEN Len(rows) ELSE flushed
    /\ last_flush' = IF ~null /\ FlushDue(log_ms) THEN log_ms ELSE last_flush
    /\ log_ms' = log_ms + d
    /\ UNCHANGED <<exited, log_pc, csv_open, entities, exit_status>>
    /\ UNCHANGED <<tvars, mvars, qvars, cvars, pc, g_running, g_sensor_sequences, sequence,
                   generated, published, writes, timed, joined, caught>>

(* logger, signal_handler: g_running = false                                *)
LogSignal ==
    /\ g_running
    /\ ~exited
    /\ g_running' = FALSE
    /\ UNCHANGED <<lvars, tvars, mvars, qvars, cvars, pc, g_sensor_sequences, sequence,
                   generated, published, writes, timed, joined, caught>>

(* logger main, after the loop: csv_file.flush(); csv_file.close(); the     *)
(* three dds_delete calls; return 0;                                        *)
LogExit ==
    /\ log_pc = "loop"
    /\ ~g_running
    /\ ~exited
    /\ flushed' = Len(csv_file)
    /\ csv_open' = "closed"
    /\ entities' = {}
    /\ exit_status' = 0
    /\ log_pc' = "done"
    /\ exited' = TRUE
    /\ UNCHANGED <<taken, csv_file, g_total_logged, last_flush, log_ms, csv_header>>
    /\ UNCHANGED <<tvars, mvars, qvars, cvars, pc, g_running, g_sensor_sequences, sequence,
                   generated, published, writes, timed, joined, caught>>

(* the logger when main begins: nothing is open, written or created         *)
LoggerNew ==
    /\ taken = << >>
    /\ csv_file = << >>
    /\ flushed = 0
    /\ g_total_logged = 0
    /\ last_flush = StartMs
    /\ log_ms = StartMs
    /\ exited = FALSE
    /\ log_pc = "args"
    /\ csv_open = "unopened"
    /\ csv_header = << >>
    /\ entities = {}
    /\ exit_status = NoStatus

(* the pipeline test before its first statement                             *)
TestNew ==
    /\ fill = [sensor_id |-> 0, seq |-> 0]
    /\ sequences = [i \in 0 .. (TestSensors - 1) |-> 0]
    /\ processed = 0

MonitorNew ==
    /\ g_sensors_naive = << >>
    /\ g_sensors_seen = << >>
    /\ trackers = << >>
    /\ msg = NoMsg
    /\ feed = << >>
    /\ payload = NoSample
    /\ warnings = {}
    /\ parse_errors = 0
    /\ now_ms = StartMs
    /\ sleeps = 0
    /\ g_last_dashboard_ms = StartMs
    /\ g_last_print_ms = 0
    /\ data_updated = FALSE
    /\ g_first_print = TRUE
    /\ dashboard_naive = {}
    /\ dashboard_seen = {}
    /\ summary = [printed |-> FALSE, naive |-> {}, seen |-> {}]
    /\ average = [of |-> -1, result |-> Zero]
    /\ LoggerNew
    /\ TestNew

----------------------------------------------------------------------------
(* ThreadSafeQueue                                                          *)

(* Faulty variants of the definitions below: each is the slip named, and    *)
(* each is caught by one of the properties at the end of the module.        *)
EnqueueAtFront(q, v)           == <<v>> \o q                  \* a stack, not a queue
EnqueueUnlessStopped(q, v)     == IF stopped_ THEN q ELSE Append(q, v)
DequeueKeepsFront(q)           == q                           \* queue_.pop() left out
WaitPredicateIgnoresStop(q, s) == q # <<>>                    \* waits for data only
ShouldStopWhenStopped(q, s)    == s                           \* drops pending items

(* the new item overtakes the one that was last                             *)
EnqueueBeforeLast(q, v) ==
    IF q = <<>> THEN <<v>> ELSE SubSeq(q, 1, Len(q) - 1) \o <<v, q[Len(q)]>>

(* push() that waits for the queue to be reopened before it inserts         *)
PushInsertWaitsWhileStopped(t, v) ==
    /\ pc[t] = "push_lock"
    /\ mutex_ = NoThread
    /\ ~stopped_
    /\ queue_' = Append(queue_, v)
    /\ pc' = Goto(t, "push_notify")
    /\ UNCHANGED <<mutex_, stopped_, value, ret>>

(* queue_.push(value)                                                       *)
Enqueue(q, v) == Append(q, v)

(* queue_.pop()                                                             *)
Dequeue(q) == Tail(q)

(* the predicate of cond_var_.wait: !queue_.empty() || stopped_             *)
WaitPredicate(q, s) == q # <<>> \/ s

(* if (stopped_ && queue_.empty()) return false;                            *)
ShouldStop(q, s) == s /\ q = <<>>

(* the threads suspended in cond_var_.wait                                  *)
Waiters == {t \in Threads : pc[t] = "pop_parked"}

(* cond_var_.notify_one() by thread t, which goes on to position l: one     *)
(* waiter, if there is any, is made runnable.                               *)
NotifyOne(t, l) ==
    \/ /\ Waiters = {}
       /\ pc' = Goto(t, l)
    \/ \E w \in Waiters : pc' = [pc EXCEPT ![t] = l, ![w] = "pop_woken"]

(* cond_var_.notify_all() by thread t, which goes on to position l.         *)
NotifyAll(t, l) ==
    pc' = [u \in Threads |-> IF u = t THEN l
                             ELSE IF u \in Waiters THEN "pop_woken" ELSE pc[u]]

(* push: { std::lock_guard<std::mutex> lock(mutex_); queue_.push(value); }  *)
(* The block takes the mutex, touches only queue_ and releases the mutex,   *)
(* so it is one step, taken when the mutex is free.                         *)
PushInsert(t, v) ==
    /\ pc[t] = "push_lock"
    /\ mutex_ = NoThread
    /\ queue_' = Enqueue(queue_, v)
    /\ pc' = Goto(t, "push_notify")
    /\ UNCHANGED <<mutex_, stopped_, value, ret>>

(* push: cond_var_.notify_one(); and push returns, to position l of t       *)
PushNotify(t, l) ==
    /\ pc[t] = "push_notify"
    /\ NotifyOne(t, l)
    /\ UNCHANGED <<queue_, mutex_, stopped_, value, ret>>

(* pop: std::unique_lock<std::mutex> lock(mutex_);                          *)
PopLock(t) ==
    /\ pc[t] = "pop_lock"
    /\ mutex_ = NoThread
    /\ mutex_' = t
    /\ pc' = Goto(t, "pop_check")
    /\ UNCHANGED <<queue_, stopped_, value, ret>>

(* pop: cond_var_.wait(lock, pred) evaluates pred with the mutex held       *)
PopCheck(t) ==
    /\ pc[t] = "pop_check"
    /\ pc' = Goto(t, IF WaitPredicate(queue_, stopped_) THEN "pop_test" ELSE "pop_block")
    /\ UNCHANGED <<queue_, mutex_, stopped_, value, ret>>

(* pop: pred was false; wait(lock) releases the mutex and suspends the      *)
(* thread in one atomic step                                                *)
PopWait(t) ==
    /\ pc[t] = "pop_block"
    /\ mutex_' = NoThread
    /\ pc' = Goto(t, "pop_parked")
    /\ UNCHANGED <<queue_, stopped_, value, ret>>

(* pop: a condition variable may wake a waiter without any notification     *)
PopSpurious(t) ==
    /\ pc[t] = "pop_parked"
    /\ pc' = Goto(t, "pop_woken")
    /\ UNCHANGED <<queue_, mutex_, stopped_, value, ret>>

(* pop: a woken waiter takes the mutex again and re-evaluates pred          *)
PopReacquire(t) ==
    /\ pc[t] = "pop_woken"
    /\ mutex_ = NoThread
    /\ mutex_' = t
    /\ pc' = Goto(t, "pop_check")
    /\ UNCHANGED <<queue_, stopped_, value, ret>>

(* pop: if (stopped_ && queue_.empty())                                     *)
PopTest(t) ==
    /\ pc[t] = "pop_test"
    /\ pc' = Goto(t, IF ShouldStop(queue_, stopped_) THEN "pop_fail" ELSE "pop_take")
    /\ UNCHANGED <<queue_, mutex_, stopped_, value, ret>>

(* pop: return false; (the lock is released)                                *)
PopFail(t) ==
    /\ pc[t] = "pop_fail"
    /\ ret' = FALSE
    /\ mutex_' = NoThread
    /\ pc' = Goto(t, "pop_done")
    /\ UNCHANGED <<queue_, stopped_, value>>

(* pop: value = queue_.front(); queue_.pop(); return true;                  *)
PopTake(t) ==
    /\ pc[t] = "pop_take"
    /\ queue_ # <<>>
    /\ value' = Head(queue_)
    /\ queue_' = Dequeue(queue_)
    /\ ret' = TRUE
    /\ mutex_' = NoThread
    /\ pc' = Goto(t, "pop_done")
    /\ UNCHANGED stopped_

(* A stop() that flips the flag: a second call would reopen the queue.      *)
StopSetToggles(t) ==
    /\ pc[t] = "stop_set"
    /\ stopped_' = ~stopped_
    /\ pc' = Goto(t, "stop_notify")
    /\ UNCHANGED <<queue_, mutex_, value, ret>>

(* stop: stopped_ = true;  (an atomic store, made without mutex_)           *)
StopSet(t) ==
    /\ pc[t] = "stop_set"
    /\ stopped_' = TRUE
    /\ pc' = Goto(t, "stop_notify")
    /\ UNCHANGED <<queue_, mutex_, value, ret>>

(* stop: cond_var_.notify_all(); and stop returns, to position l of t       *)
StopNotify(t, l) ==
    /\ pc[t] = "stop_notify"
    /\ NotifyAll(t, l)
    /\ UNCHANGED <<queue_, mutex_, stopped_, value, ret>>

----------------------------------------------------------------------------
(* Clients of the queue: producers, one consumer, one stopper.              *)

Item(p, k) == [id |-> p, n |-> k]

PushesMade == pushCount["p1"] + pushCount["p2"]

(* a producer calls push(item)                                              *)
ProducerCall(p) ==
    /\ pc[p] = "idle"
    /\ PushesMade < MaxItems
    /\ pushCount' = [pushCount EXCEPT ![p] = @ + 1]
    /\ afterStop' = [afterStop EXCEPT ![p] = stopReturned]
    /\ pc' = Goto(p, "push_lock")
    /\ UNCHANGED <<mvars, lvars, tvars, qvars, hvars, popCalls, stopCalls, stopReturned, inserted, received,
                   atStop>>

ProducerInsert(p) ==
    /\ p \in Producers
    /\ PushInsert(p, Item(p, pushCount[p]))
    /\ inserted' = Append(inserted, Item(p, pushCount[p]))
    /\ UNCHANGED <<mvars, lvars, tvars, hvars, pushCount, popCalls, stopCalls, stopReturned, afterStop, received,
                   atStop>>

ProducerNotify(p) ==
    /\ p \in Producers
    /\ PushNotify(p, "idle")
    /\ UNCHANGED <<mvars, lvars, tvars, cvars, hvars>>

(* the consumer calls pop(val)                                              *)
ConsumerCall ==
    /\ pc[Consumer] = "idle"
    /\ popCalls < MaxPops
    /\ popCalls' = popCalls + 1
    /\ afterStop' = [afterStop EXCEPT ![Consumer] = stopReturned]
    /\ pc' = Goto(Consumer, "pop_lock")
    /\ UNCHANGED <<mvars, lvars, tvars, qvars, hvars, pushCount, stopCalls, stopReturned, inserted, received,
                   atStop>>

ConsumerLock      == PopLock(Consumer)      /\ UNCHANGED <<mvars, lvars, tvars, cvars, hvars>>
ConsumerCheck     == PopCheck(Consumer)     /\ UNCHANGED <<mvars, lvars, tvars, cvars, hvars>>
ConsumerWait      == PopWait(Consumer)      /\ UNCHANGED <<mvars, lvars, tvars, cvars, hvars>>
ConsumerSpurious  == PopSpurious(Consumer)  /\ UNCHANGED <<mvars, lvars, tvars, cvars, hvars>>
ConsumerReacquire == PopReacquire(Consumer) /\ UNCHANGED <<mvars, lvars, tvars, cvars, hvars>>
ConsumerTest      == PopTest(Consumer)      /\ UNCHANGED <<mvars, lvars, tvars, cvars, hvars>>
ConsumerFail      == PopFail(Consumer)      /\ UNCHANGED <<mvars, lvars, tvars, cvars, hvars>>
ConsumerTake      == PopTake(Consumer)      /\ UNCHANGED <<mvars, lvars, tvars, cvars, hvars>>

(* pop() returns to the consumer, which keeps the item when it got one      *)
ConsumerReturn ==
    /\ pc[Consumer] = "pop_done"
    /\ received' = IF ret THEN Append(received, value) ELSE received
    /\ pc' = Goto(Consumer, "idle")
    /\ UNCHANGED <<mvars, lvars, tvars, qvars, hvars, pushCount, popCalls, stopCalls, stopReturned, afterStop,
                   inserted, atStop>>

(* the stopper calls stop()                                                 *)
StopperCall ==
    /\ pc[Stopper] = "idle"
    /\ stopCalls < MaxStops
    /\ stopCalls' = stopCalls + 1
    /\ pc' = Goto(Stopper, "stop_set")
    /\ UNCHANGED <<mvars, lvars, tvars, qvars, hvars, pushCount, popCalls, stopReturned, afterStop, inserted,
                   received, atStop>>

StopperSet ==
    /\ StopSet(Stopper)
    /\ atStop' = IF stopped_ THEN atStop ELSE queue_
    /\ UNCHANGED <<mvars, lvars, tvars, hvars, pushCount, popCalls, stopCalls, stopReturned, afterStop, inserted,
                   received>>

(* the last statement of stop(); the call has returned                      *)
StopperNotify ==
    /\ StopNotify(Stopper, "idle")
    /\ stopReturned' = TRUE
    /\ UNCHANGED <<mvars, lvars, tvars, hvars, pushCount, popCalls, stopCalls, afterStop, inserted, received,
                   atStop>>

HubIdle ==
    /\ g_running = TRUE
    /\ g_sensor_sequences = [i \in SensorIds |-> 0]
    /\ sequence = 0
    /\ generated = [i \in SensorIds |-> 0]
    /\ published = {}
    /\ writes = 0
    /\ timed = FALSE
    /\ joined = 0
    /\ caught = FALSE

QueueNew ==
    /\ queue_ = <<>>
    /\ mutex_ = NoThread
    /\ stopped_ = FALSE
    /\ ret = FALSE

ClientsNew ==
    /\ pushCount = [p \in Producers |-> 0]
    /\ popCalls = 0
    /\ stopCalls = 0
    /\ stopReturned = FALSE
    /\ afterStop = [t \in Threads |-> FALSE]
    /\ inserted = <<>>
    /\ received = <<>>
    /\ atStop = <<>>

InitQ ==
    /\ QueueNew
    /\ value = NoItem
    /\ ClientsNew
    /\ HubIdle
    /\ MonitorNew
    /\ messages = 0
    /\ pc = [t \in Threads |->
                IF t \in Producers \cup {Consumer, Stopper} THEN "idle" ELSE "off"]

NextQ ==
    \/ \E p \in Producers : ProducerCall(p)
    \/ \E p \in Producers : ProducerInsert(p)
    \/ \E p \in Producers : ProducerNotify(p)
    \/ ConsumerCall
    \/ ConsumerLock
    \/ ConsumerCheck
    \/ ConsumerWait
    \/ ConsumerSpurious
    \/ ConsumerReacquire
    \/ ConsumerTest
    \/ ConsumerFail
    \/ ConsumerTake
    \/ ConsumerReturn
    \/ StopperCall
    \/ StopperSet
    \/ StopperNotify

SpecQ == InitQ /\ [][NextQ]_vars

(* The steps an operation in progress takes once it has been called: the    *)
(* scheduler runs every runnable thread eventually.  A spurious wake-up is  *)
(* allowed but never promised, and no client is obliged to make a call.     *)
ProducerProgress(p) == ProducerInsert(p) \/ ProducerNotify(p)

ConsumerProgress ==
    \/ ConsumerLock \/ ConsumerCheck \/ ConsumerWait \/ ConsumerReacquire
    \/ ConsumerTest \/ ConsumerFail \/ ConsumerTake \/ ConsumerReturn

StopperProgress == StopperSet \/ StopperNotify

FairSpecQ ==
    /\ SpecQ
    /\ \A p \in Producers : WF_vars(ProducerProgress(p))
    /\ WF_vars(ConsumerProgress)
    /\ WF_vars(StopperProgress)

----------------------------------------------------------------------------
(* The sensor hub.  main's pop(incoming_data) writes its out-parameter, so  *)
(* incoming_data is the variable value.                                     *)
incoming_data == value

Reading(i, k) == [id |-> i, n |-> k]

ReadingsMade == generated[0] + generated[1] + generated[2]

AssignedAfterIncrement(seqs, id) == seqs[id] + 1   \* ++x written for x++
PostIncrementForgotten(seqs, id) == seqs           \* the counter is never advanced

(* sequence = g_sensor_sequences[id]++ : the value assigned                 *)
AssignedSequence(seqs, id) == seqs[id]

(* sequence = g_sensor_sequences[id]++ : the map afterwards                 *)
PostIncrement(seqs, id) == [seqs EXCEPT ![id] = @ + 1]

(* while(true) written for while(g_running)                                 *)
GenIterateUnchecked(i, l) ==
    /\ pc[SensorThread[i]] = l
    /\ ReadingsMade < MaxReadings
    /\ generated' = [generated EXCEPT ![i] = @ + 1]
    /\ pc' = Goto(SensorThread[i], "push_lock")
    /\ UNCHANGED <<mvars, lvars, tvars, qvars, cvars, g_running, g_sensor_sequences, sequence, published,
                   writes, timed, joined, caught>>

(* sensor_thread_func: while(g_running) { build data; g_data_queue.push(    *)
(* evaluated by a thread at position l                                      *)
GenIterate(i, l) ==
    /\ pc[SensorThread[i]] = l
    /\ IF g_running
         THEN /\ ReadingsMade < MaxReadings
              /\ generated' = [generated EXCEPT ![i] = @ + 1]
              /\ pc' = Goto(SensorThread[i], "push_lock")
         ELSE /\ pc' = Goto(SensorThread[i], "gen_exit")
              /\ UNCHANGED generated
    /\ UNCHANGED <<mvars, lvars, tvars, qvars, cvars, g_running, g_sensor_sequences, sequence, published,
                   writes, timed, joined, caught>>

(* sensor_thread_func: the thread starts and reads the loop condition       *)
GenStart(i) == GenIterate(i, "gen_start")

GenInsert(i) ==
    /\ PushInsert(SensorThread[i], Reading(i, generated[i]))
    /\ UNCHANGED <<mvars, lvars, tvars, cvars, hvars>>

(* push() returns into sleep_for(sleep_time)                                *)
GenNotify(i) ==
    /\ PushNotify(SensorThread[i], "gen_sleep")
    /\ UNCHANGED <<mvars, lvars, tvars, cvars, hvars>>

(* sensor_thread_func: the sleep ends and the loop condition is read again  *)
GenWake(i) == GenIterate(i, "gen_sleep")

(* main: while(g_running) { if(g_data_queue.pop(incoming_data))             *)
MainLoop ==
    /\ pc[Main] = "loop"
    /\ pc' = Goto(Main, IF g_running THEN "pop_lock" ELSE "join")
    /\ UNCHANGED <<mvars, lvars, tvars, qvars, cvars, hvars>>

MainPopLock      == PopLock(Main)      /\ UNCHANGED <<mvars, lvars, tvars, cvars, hvars>>
MainPopCheck     == PopCheck(Main)     /\ UNCHANGED <<mvars, lvars, tvars, cvars, hvars>>
MainPopWait      == PopWait(Main)      /\ UNCHANGED <<mvars, lvars, tvars, cvars, hvars>>
MainPopSpurious  == PopSpurious(Main)  /\ UNCHANGED <<mvars, lvars, tvars, cvars, hvars>>
MainPopReacquire == PopReacquire(Main) /\ UNCHANGED <<mvars, lvars, tvars, cvars, hvars>>
MainPopTest      == PopTest(Main)      /\ UNCHANGED <<mvars, lvars, tvars, cvars, hvars>>
MainPopFail      == PopFail(Main)      /\ UNCHANGED <<mvars, lvars, tvars, cvars, hvars>>
MainPopTake      == PopTake(Main)      /\ UNCHANGED <<mvars, lvars, tvars, cvars, hvars>>

(* main: the branch on pop()'s result; the else branch sleeps 10 ms         *)
MainAfterPop ==
    /\ pc[Main] = "pop_done"
    /\ pc' = Goto(Main, IF ret THEN "assign" ELSE "timeout")
    /\ UNCHANGED <<mvars, lvars, tvars, qvars, cvars, hvars>>

(* main: { lock_guard lock(g_sequence_mutex);                               *)
(*         sequence = g_sensor_sequences[incoming_data.id]++; }             *)
MainAssign ==
    /\ pc[Main] = "assign"
    /\ sequence' = AssignedSequence(g_sensor_sequences, incoming_data.id)
    /\ g_sensor_sequences' = PostIncrement(g_sensor_sequences, incoming_data.id)
    /\ pc' = Goto(Main, "publish")
    /\ UNCHANGED <<mvars, lvars, tvars, qvars, cvars, g_running, generated, published, writes, timed, joined,
                   caught>>

(* main: the JSON payload {id, value, timestamp, sequence} and dds_write    *)
MainPublish ==
    /\ pc[Main] = "publish"
    /\ published' = published \cup
                      {[id |-> incoming_data.id, n |-> incoming_data.n, sequence |-> sequence]}
    /\ writes' = writes + 1
    /\ pc' = Goto(Main, "timeout")
    /\ UNCHANGED <<mvars, lvars, tvars, qvars, cvars, g_running, g_sensor_sequences, sequence, generated, timed,
                   joined, caught>>

(* the timeout branch with g_running = false left out                       *)
MainTimeoutKeepsFlag ==
    /\ pc[Main] = "timeout"
    /\ \E elapsed \in BOOLEAN :
          pc' = Goto(Main, IF timed /\ elapsed THEN "stop_set" ELSE "loop")
    /\ UNCHANGED <<mvars, lvars, tvars, qvars, cvars, hvars>>

(* main: if (run_duration_sec > 0) { if (elapsed > ...) { g_running = false;*)
(* The clock is read at every check; once the duration has elapsed this     *)
(* branch ends the loop, so the check is not made again.                    *)
MainTimeout ==
    /\ pc[Main] = "timeout"
    /\ \E elapsed \in BOOLEAN :
          IF timed /\ elapsed
            THEN /\ g_running' = FALSE
                 /\ pc' = Goto(Main, "stop_set")
            ELSE /\ pc' = Goto(Main, "loop")
                 /\ UNCHANGED g_running
    /\ UNCHANGED <<mvars, lvars, tvars, qvars, cvars, g_sensor_sequences, sequence, generated, published,
                   writes, timed, joined, caught>>

MainStopSet == StopSet(Main) /\ UNCHANGED <<mvars, lvars, tvars, cvars, hvars>>

(* main: g_data_queue.stop() returns to the end of the loop body            *)
MainStopNotify == StopNotify(Main, "loop") /\ UNCHANGED <<mvars, lvars, tvars, cvars, hvars>>

(* main: for(auto& t : sensors) t.join();  one join returns                 *)
MainJoin ==
    /\ pc[Main] = "join"
    /\ joined < NumSensors
    /\ pc[SensorThread[joined]] = "gen_exit"
    /\ joined' = joined + 1
    /\ UNCHANGED <<mvars, lvars, tvars, qvars, cvars, pc, g_running, g_sensor_sequences, sequence, generated,
                   published, writes, timed, caught>>

(* main: every thread is joined; cleanup, summary, return 0                 *)
MainExit ==
    /\ pc[Main] = "join"
    /\ joined = NumSensors
    /\ pc' = Goto(Main, "exited")
    /\ UNCHANGED <<mvars, lvars, tvars, qvars, cvars, hvars>>

(* SIGINT or SIGTERM arrives: signal_handler starts                         *)
SignalDeliver ==
    /\ pc[Sig] = "idle"
    /\ pc[Main] # "exited"
    /\ pc' = Goto(Sig, "sig_flag")
    /\ caught' = (caught \/ (/\ pc[Main] = "pop_parked"
                              /\ \A i \in SensorIds : pc[SensorThread[i]] = "gen_sleep"))
    /\ UNCHANGED <<mvars, lvars, tvars, qvars, cvars, g_running, g_sensor_sequences, sequence, generated,
                   published, writes, timed, joined>>

(* signal_handler that stops the queue and leaves the flag alone            *)
SigFlagForgotten ==
    /\ pc[Sig] = "sig_flag"
    /\ pc' = Goto(Sig, "stop_set")
    /\ UNCHANGED <<mvars, lvars, tvars, qvars, cvars, hvars>>

(* signal_handler: g_running = false;                                       *)
SigFlag ==
    /\ pc[Sig] = "sig_flag"
    /\ g_running' = FALSE
    /\ pc' = Goto(Sig, "stop_set")
    /\ UNCHANGED <<mvars, lvars, tvars, qvars, cvars, g_sensor_sequences, sequence, generated, published,
                   writes, timed, joined, caught>>

SigStopSet == StopSet(Sig) /\ UNCHANGED <<mvars, lvars, tvars, cvars, hvars>>

(* signal_handler: g_data_queue.stop() returns and the handler with it      *)
SigStopNotify == StopNotify(Sig, "idle") /\ UNCHANGED <<mvars, lvars, tvars, cvars, hvars>>

InitHub ==
    /\ QueueNew
    /\ incoming_data = NoReading
    /\ ClientsNew
    /\ MonitorNew
    /\ g_running = TRUE
    /\ g_sensor_sequences = [i \in SensorIds |-> 0]
    /\ sequence = 0
    /\ generated = [i \in SensorIds |-> 0]
    /\ published = {}
    /\ writes = 0
    /\ timed \in BOOLEAN
    /\ joined = 0
    /\ caught = FALSE
    /\ messages = 0
    /\ pc = [t \in Threads |->
                IF t \in SensorThreads THEN "gen_start"
                ELSE IF t = Main THEN "loop"
                ELSE IF t = Sig THEN "idle" ELSE "off"]

NextHub ==
    \/ \E i \in SensorIds : GenStart(i)
    \/ \E i \in SensorIds : GenInsert(i)
    \/ \E i \in SensorIds : GenNotify(i)
    \/ \E i \in SensorIds : GenWake(i)
    \/ MainLoop
    \/ MainPopLock
    \/ MainPopCheck
    \/ MainPopWait
    \/ MainPopSpurious
    \/ MainPopReacquire
    \/ MainPopTest
    \/ MainPopFail
    \/ MainPopTake
    \/ MainAfterPop
    \/ MainAssign
    \/ MainPublish
    \/ MainTimeout
    \/ MainStopSet
    \/ MainStopNotify
    \/ MainJoin
    \/ MainExit
    \/ SignalDeliver
    \/ SigFlag
    \/ SigStopSet
    \/ SigStopNotify

SpecHub == InitHub /\ [][NextHub]_vars

(* Every runnable thread of the hub is scheduled eventually and every sleep *)
(* ends.  Signals, the clock passing the duration and spurious wake-ups are *)
(* not promised.                                                            *)
GenProgress(i) == GenStart(i) \/ GenInsert(i) \/ GenNotify(i) \/ GenWake(i)

MainProgress ==
    \/ MainLoop \/ MainPopLock \/ MainPopCheck \/ MainPopWait \/ MainPopReacquire
    \/ MainPopTest \/ MainPopFail \/ MainPopTake \/ MainAfterPop \/ MainAssign
    \/ MainPublish \/ MainTimeout \/ MainStopSet \/ MainStopNotify
    \/ MainJoin \/ MainExit

SigProgress == SigFlag \/ SigStopSet \/ SigStopNotify

HubProgress == (\E i \in SensorIds : GenProgress(i)) \/ MainProgress \/ SigProgress

(* Fairness is per thread: a handler that runs again and again does not     *)
(* keep the other threads from being scheduled.                             *)
FairSpecHub ==
    /\ SpecHub
    /\ \A i \in SensorIds : WF_vars(GenProgress(i))
    /\ WF_vars(MainProgress)
    /\ WF_vars(SigProgress)

----------------------------------------------------------------------------
(* The monitor fed any tuples in any order.                                 *)
InitMon ==
    /\ QueueNew
    /\ value = NoItem
    /\ ClientsNew
    /\ HubIdle
    /\ MonitorNew
    /\ messages = 0
    /\ pc = [t \in Threads |-> "off"]

NextMon == \E id \in Sources, seq \in 0 .. MaxU64, v \in Values : Deliver(id, seq, v)

SpecMon == InitMon /\ [][NextMon]_vars

----------------------------------------------------------------------------
(* The monitor's main loop with its dashboards, fed the tuples of each      *)
(* source in order, among them samples that do not decode, until a signal   *)
(* stops it and it prints its final summary.  g_running is here the         *)
(* monitor's flag of that name.                                             *)

(* values of the "value" field: one inside the band the documents call      *)
(* plausible, one below it, and one above it and above the initial          *)
(* min_value                                                                *)
DashValues == {18, 25, 2 * 10^9}

(* the time one iteration takes: the 10 ms asked of sleep_for, or longer    *)
SleepMs == {10, 2000}

(* tuples of id taken so far, which is the sequence its sender stamps next  *)
TakenFor(id) == Len(SelectSeq(feed, LAMBDA m : m.id = id))

(* the tuple a sensor hub sends next for id, stamped with the current time  *)
NextTuple(id, v) ==
    [id |-> id, value |-> v, timestamp |-> now_ms, sequence |-> Wrap(TakenFor(id))]

(* payloads the try block rejects                                           *)
Malformed ==
    {Garbage, Without(Encode(NextTuple(0, 25)), "id"),
     Without(Encode(NextTuple(0, 25)), "sequence")}

(* the values offered to id: those that keep its sum within the integers    *)
(* the checker computes with                                                *)
Offered(id) ==
    {v \in DashValues :
        At(g_sensors_naive, id, SensorStateNaive).sum_value <= 2147483647 - v}

(* a tuple that repeats the sequence a source began with                    *)
Repeated(id) == [id |-> id, value |-> 25, timestamp |-> now_ms, sequence |-> 0]

Samples ==
    {NoSample, NullPayload} \cup Malformed \cup {Encode(Repeated(id)) : id \in Sources}
      \cup UNION {{Encode(NextTuple(id, v)) : v \in Offered(id)} : id \in Sources}

InitDash == InitMon

NextDash ==
    \/ \E p \in Samples, d \in SleepMs : Iterate(p, d)
    \/ MonitorSignal
    \/ FinalSummary
    \/ \E id \in Sources : summary.printed /\ GetAverage(id)

SpecDash == InitDash /\ [][NextDash]_vars

----------------------------------------------------------------------------
(* The logger's main loop, fed samples of every kind, until a signal stops  *)
(* it and it closes the file.  g_running is here the logger's flag of that  *)
(* name.                                                                    *)

(* the tuple a sensor hub sends next, stamped with the logger's time        *)
LogTuple(id) ==
    [id |-> id, value |-> 25, timestamp |-> log_ms, sequence |-> Wrap(Len(csv_file))]

LogSamples ==
    {NoSample, NullPayload, Garbage, Without(Encode(LogTuple(0)), "sequence")}
      \cup {Encode(LogTuple(id)) : id \in Sources}

InitLog == InitMon

NextLog ==
    \/ \E help \in BOOLEAN : LogArgs(help)
    \/ \E ok \in BOOLEAN : LogOpen(ok)
    \/ LogHeader
    \/ \E ok \in BOOLEAN : LogCreate(ok)
    \/ \E p \in LogSamples, d \in LogMs : LogIterate(p, d)
    \/ LogSignal
    \/ LogExit

SpecLog == InitLog /\ [][NextLog]_vars

----------------------------------------------------------------------------
(* The pipeline test, TEST(EndToEndTest, SensorDataPipeline): one thread    *)
(* fills a queue that nobody stops and then drains it.  The test pushes 10  *)
(* messages for each of its 3 sensors and compares processed with 30; here  *)
(* it pushes `messages' per sensor and compares with TestSensors * messages.*)

(* SensorData data of the filling loops                                     *)
TestData(sensor, n) == [id |-> sensor, value |-> 20 + n, timestamp |-> n * 1000]

(* the literal 30 of the loop condition: every message pushed               *)
TestTotal == TestSensors * messages

(* queue.pop(data) && processed < 30, with the result of pop() at hand      *)
LoopContinues(popped, count) == popped /\ count < TestTotal

(* the two for statements: the next message to push, the next sensor, or    *)
(* the end of the filling                                                   *)
TestFill ==
    /\ pc[Tester] = "fill"
    /\ IF fill.sensor_id >= TestSensors
         THEN pc' = Goto(Tester, "drain") /\ fill' = fill
         ELSE IF fill.seq >= messages
           THEN pc' = pc /\ fill' = [sensor_id |-> fill.sensor_id + 1, seq |-> 0]
           ELSE pc' = Goto(Tester, "push_lock") /\ fill' = fill
    /\ UNCHANGED <<mvars, lvars, qvars, cvars, hvars, messages, sequences, processed>>

TestPushInsert ==
    /\ PushInsert(Tester, TestData(fill.sensor_id, fill.seq))
    /\ UNCHANGED <<mvars, lvars, tvars, cvars, hvars>>

TestPushNotify ==
    /\ PushNotify(Tester, "fill")
    /\ fill' = [fill EXCEPT !.seq = @ + 1]
    /\ UNCHANGED <<mvars, lvars, cvars, hvars, messages, sequences, processed>>

(* while (queue.pop(data) && ...): the left operand is evaluated first, so  *)
(* every evaluation of the condition begins with a call of pop()            *)
TestDrain ==
    /\ pc[Tester] = "drain"
    /\ pc' = Goto(Tester, "pop_lock")
    /\ UNCHANGED <<mvars, lvars, tvars, qvars, cvars, hvars>>

TestPopLock      == PopLock(Tester)      /\ UNCHANGED <<mvars, lvars, tvars, cvars, hvars>>
TestPopCheck     == PopCheck(Tester)     /\ UNCHANGED <<mvars, lvars, tvars, cvars, hvars>>
TestPopWait      == PopWait(Tester)      /\ UNCHANGED <<mvars, lvars, tvars, cvars, hvars>>
TestPopSpurious  == PopSpurious(Tester)  /\ UNCHANGED <<mvars, lvars, tvars, cvars, hvars>>
TestPopReacquire == PopReacquire(Tester) /\ UNCHANGED <<mvars, lvars, tvars, cvars, hvars>>
TestPopTest      == PopTest(Tester)      /\ UNCHANGED <<mvars, lvars, tvars, cvars, hvars>>

(* the return statement pop() has reached: return false, or the front item  *)
TestPopReturn ==
    /\ IF pc[Tester] = "pop_fail" THEN PopFail(Tester) ELSE PopTake(Tester)
    /\ UNCHANGED <<mvars, lvars, tvars, cvars, hvars>>

(* pop() has returned: && processed < 30 decides between the body and the   *)
(* statements after the loop                                                *)
TestCondition ==
    /\ pc[Tester] = "pop_done"
    /\ pc' = Goto(Tester, IF LoopContinues(ret, processed) THEN "body" ELSE "verify")
    /\ UNCHANGED <<mvars, lvars, tvars, qvars, cvars, hvars>>

(* trackers[sensor_id].process_message(data, sequences[sensor_id]++);       *)
(* processed++;                                                             *)
TestBody ==
    /\ pc[Tester] = "body"
    /\ trackers' = Put(trackers, value.id,
                       process_message(At(trackers, value.id, TrackerNew),
                                       [sequence |-> sequences[value.id], value |-> value.value]))
    /\ sequences' = [sequences EXCEPT ![value.id] = Wrap(@ + 1)]
    /\ processed' = processed + 1
    /\ pc' = Goto(Tester, "drain")
    /\ UNCHANGED <<g_sensors_naive, g_sensors_seen, msg, feed, payload, warnings, parse_errors,
                   now_ms, sleeps, dvars, lvars, qvars, cvars, hvars, fill, messages>>

InitTest ==
    /\ QueueNew
    /\ value = NoItem
    /\ ClientsNew
    /\ HubIdle
    /\ MonitorNew
    /\ messages \in 1 .. MaxMessages
    /\ pc = [t \in Threads |-> IF t = Tester THEN "fill" ELSE "off"]

NextTest ==
    \/ TestFill
    \/ TestPushInsert
    \/ TestPushNotify
    \/ TestDrain
    \/ TestPopLock
    \/ TestPopCheck
    \/ TestPopWait
    \/ TestPopSpurious
    \/ TestPopReacquire
    \/ TestPopTest
    \/ TestPopReturn
    \/ TestCondition
    \/ TestBody

SpecTest == InitTest /\ [][NextTest]_vars

(* The test's thread runs whenever it can; a spurious wake-up is allowed    *)
(* but never promised.                                                      *)
TestProgress ==
    \/ TestFill \/ TestPushInsert \/ TestPushNotify \/ TestDrain \/ TestPopLock
    \/ TestPopCheck \/ TestPopWait \/ TestPopReacquire \/ TestPopTest \/ TestPopReturn
    \/ TestCondition \/ TestBody

FairSpecTest == SpecTest /\ WF_vars(TestProgress)

----------------------------------------------------------------------------
(* Properties of the queue, checked under SpecQ.                            *)

Range(q) == {q[i] : i \in 1 .. Len(q)}

Times(x, q) == Cardinality({i \in 1 .. Len(q) : q[i] = x})

(* the item pop() has handed out and the consumer has not recorded yet      *)
InHand == IF pc[Consumer] = "pop_done" /\ ret THEN <<value>> ELSE <<>>

Delivered == received \o InHand

(* the items of all push() calls made so far                                *)
Pushed == {x \in [id : Producers, n : 1 .. MaxItems] : x.n <= pushCount[x.id]}

(* C1: every item a push() inserted is in the queue or was handed out by   *)
(* exactly one successful pop(), never both and never twice; pop() hands    *)
(* out nothing that was not pushed; and once the consumer has received as   *)
(* many items as were pushed, it has received each pushed item exactly once.*)
C1_ExactlyOnce ==
    /\ \A x \in Range(inserted) : Times(x, Delivered) + Times(x, queue_) = 1
    /\ Range(Delivered) \cup Range(queue_) \subseteq Range(inserted)
    /\ Len(received) = PushesMade => \A x \in Pushed : Times(x, received) = 1

C1_Witness ==
    /\ Len(received) = MaxItems
    /\ \A p \in Producers : pushCount[p] > 0

(* C2: once stop() has returned, a consumer that is inside pop() leaves    *)
(* pop() eventually, whatever the interleaving and without any push().      *)
C2_StopWakesPop ==
    (stopReturned /\ pc[Consumer] \in InsidePop) ~> (pc[Consumer] = "pop_done")

(* C3: a pop() called after stop() has returned never suspends on the       *)
(* condition variable, and on an empty queue it takes the return-false      *)
(* branch; this holds for each such call.                                   *)
C3_PopAfterStop ==
    (afterStop[Consumer] /\ pc[Consumer] \in InsidePop) =>
        /\ pc[Consumer] \notin Blocking
        /\ pc[Consumer] = "pop_take" => queue_ # <<>>

C3_Witness ==
    /\ afterStop[Consumer]
    /\ pc[Consumer] = "pop_done"
    /\ ~ret
    /\ popCalls >= 2
    /\ received = <<>>

IsSegment(a, b) ==
    \E k \in 0 .. Len(b) :
        /\ k + Len(a) <= Len(b)
        /\ \A i \in 1 .. Len(a) : b[k + i] = a[i]

(* C4: pop() takes its return-false branch only when the queue is stopped   *)
(* and empty, and when a pop() has returned false the items that were in    *)
(* the queue when it was stopped have all been delivered, in their order.   *)
C4_Drainable ==
    /\ pc[Consumer] = "pop_fail" => (stopped_ /\ queue_ = <<>>)
    /\ (pc[Consumer] = "pop_done" /\ ~ret) => IsSegment(atStop, received)

C4_Witness ==
    /\ pc[Consumer] = "pop_done"
    /\ ~ret
    /\ Len(atStop) >= 2

C6_ArrivalOrder ==
    /\ Len(Delivered) <= Len(inserted)
    /\ \A i \in 1 .. Len(Delivered) : Delivered[i] = inserted[i]

C6_Witness ==
    /\ Len(received) >= 2
    /\ received[1] = Item("p2", 1)
    /\ received[2] = Item("p1", 1)

----------------------------------------------------------------------------
(* Properties of the sensor hub, checked under SpecHub.                     *)

(* readings of sensor i that have been inserted into the queue              *)
Inserted(i) == generated[i] - (IF pc[SensorThread[i]] = "push_lock" THEN 1 ELSE 0)

InsertedReadings == {r \in [id : SensorIds, n : 1 .. MaxReadings] : r.n <= Inserted(r.id)}

(* main has popped a reading it has not handed to dds_write yet             *)
Holding == pc[Main] \in {"assign", "publish"} \/ (pc[Main] = "pop_done" /\ ret)

Held(r) == IF Holding /\ incoming_data = r THEN 1 ELSE 0

PublishedOf(r) == {w \in published : w.id = r.id /\ w.n = r.n}

PublishedFor(i) == {w \in published : w.id = i}

(* C7: when the shutdown flag is cleared and the queue stopped as the       *)
(* result of a signal that found every generator in its sleep and main      *)
(* suspended in pop(), the hub does not come to rest before main has        *)
(* joined every generator and left.                                         *)
C7_ShutdownTerminates ==
    (caught /\ ~g_running /\ stopped_) => (pc[Main] = "exited" \/ ENABLED HubProgress)

(* C8: no two records handed to the transport carry the same source and     *)
(* the same sequence value, and every dds_write is a record of its own.     *)
C8_UniqueSequence ==
    /\ \A a, b \in published : (a.id = b.id /\ a.sequence = b.sequence) => a = b
    /\ Cardinality(published) = writes

C8_Witness ==
    \E a, b \in published : a.id = b.id /\ a # b

(* C9: per source the sequences handed out are 0, 1, ..., k-1 for the k     *)
(* readings sequenced so far, the reading being sequenced as the k-th gets  *)
(* k-1, the counter is the number of readings sequenced, and it never       *)
(* decreases.                                                               *)
C9_SequenceInv ==
    /\ \A i \in SensorIds :
          /\ {w.sequence : w \in PublishedFor(i)} = 0 .. (Cardinality(PublishedFor(i)) - 1)
          /\ g_sensor_sequences[i] = Cardinality(PublishedFor(i))
                 + (IF pc[Main] = "publish" /\ incoming_data.id = i THEN 1 ELSE 0)
    /\ pc[Main] = "publish" => sequence = Cardinality(PublishedFor(incoming_data.id))

C9_SequenceFromZero ==
    /\ []C9_SequenceInv
    /\ [][\A i \in SensorIds : g_sensor_sequences'[i] >= g_sensor_sequences[i]]_vars

C9_Witness ==
    \E i \in SensorIds : Cardinality(PublishedFor(i)) >= 2

(* C10, as stated: when main has left, every reading a generator pushed     *)
(* has been handed to the transport.                                        *)
C10_AllConsumed ==
    pc[Main] = "exited" => \A r \in InsertedReadings : PublishedOf(r) # {}

(* C10, amended: every reading pushed is consumed at most once: it is in    *)
(* exactly one place, the queue, main's hands or the transport, and is      *)
(* handed to the transport at most once; when main has left, the readings   *)
(* not handed to the transport are exactly those left in the queue.         *)
C10_AtMostOnce ==
    /\ \A r \in InsertedReadings :
          /\ Times(r, queue_) + Held(r) + Cardinality(PublishedOf(r)) = 1
    /\ \A w \in published : [id |-> w.id, n |-> w.n] \in InsertedReadings
    /\ Cardinality(published) = writes
    /\ pc[Main] = "exited" =>
          \A r \in InsertedReadings : (PublishedOf(r) = {}) <=> (r \in Range(queue_))

C10_Witness ==
    /\ pc[Main] = "exited"
    /\ queue_ # <<>>
    /\ published # {}

----------------------------------------------------------------------------
(* Properties of the monitor and the tracker, checked under SpecMon.        *)

(* the tuples taken so far for source id, and their sequence numbers        *)
FeedOf(id) == SelectSeq(feed, LAMBDA m : m.id = id)

SeqsOf(id) == [i \in 1 .. Len(FeedOf(id)) |-> FeedOf(id)[i].sequence]

(* the sequences 0, 1, ..., n-1 in order                                    *)
InOrder(n) == [i \in 1 .. n |-> i - 1]

(* C14: the first tuple taken for a source, whatever its sequence, leaves   *)
(* dropped_count at 0 and sets the expected sequence to its sequence plus   *)
(* one (in uint64_t arithmetic), in the naive and in the seen-set monitor.  *)
C14_FirstIsBaseline ==
    [][(feed' # feed /\ FeedOf(msg'.id) = << >>) =>
          /\ msg'.id \notin DOMAIN g_sensors_naive
          /\ msg'.id \notin DOMAIN g_sensors_seen
          /\ g_sensors_naive'[msg'.id].initialized
          /\ g_sensors_naive'[msg'.id].dropped_count = 0
          /\ g_sensors_naive'[msg'.id].expected_seq = Wrap(msg'.sequence + 1)
          /\ g_sensors_seen'[msg'.id].initialized
          /\ g_sensors_seen'[msg'.id].dropped_count = 0
          /\ g_sensors_seen'[msg'.id].expected_seq = Wrap(msg'.sequence + 1)]_vars

C14_Witness ==
    /\ SeqsOf(1) = <<5>>
    /\ g_sensors_naive[1].expected_seq = 6
    /\ g_sensors_seen[1].expected_seq = 6
    /\ g_sensors_naive[1].dropped_count = 0
    /\ Len(feed) > 1

(* what C15 requires of one step of a tracked source's record               *)
GapCounted(before, after, seq) ==
    /\ after.dropped_count = Wrap(before.dropped_count + (seq - before.expected_seq))
    /\ after.expected_seq = Wrap(seq + 1)

(* C15: for a source that has a baseline, a tuple whose sequence is greater *)
(* than the expected one adds their difference to dropped_count and sets    *)
(* the expected sequence to the received one plus one (both in uint64_t     *)
(* arithmetic), in the naive monitor, in the tracker and, for a sequence    *)
(* not seen before, in the seen-set monitor; the sequences 0, 1, 5 give     *)
(* dropped_count 3, message_count 3 and expected sequence 6.                *)
C15_GapAdded ==
    /\ [][(feed' # feed /\ FeedOf(msg'.id) # << >>) =>
            LET id  == msg'.id
                seq == msg'.sequence
            IN  /\ seq > g_sensors_naive[id].expected_seq =>
                      GapCounted(g_sensors_naive[id], g_sensors_naive'[id], seq)
                /\ seq > trackers[id].expected_seq =>
                      GapCounted(trackers[id], trackers'[id], seq)
                /\ (/\ seq > g_sensors_seen[id].expected_seq
                    /\ seq \notin g_sensors_seen[id].seen_sequences) =>
                      GapCounted(g_sensors_seen[id], g_sensors_seen'[id], seq)]_vars
    /\ [](\A id \in Sources : SeqsOf(id) = <<0, 1, 5>> =>
             \A t \in {g_sensors_naive[id], g_sensors_seen[id], trackers[id]} :
                 /\ t.dropped_count = 3
                 /\ t.message_count = 3
                 /\ t.expected_seq = 6)

C15_Witness ==
    /\ SeqsOf(0) = <<0, 1, 5>>
    /\ trackers[0].dropped_count = 3
    /\ g_sensors_naive[0].dropped_count = 3

(* C16: a source fed the sequences 0, 1, ..., N-1 in order has              *)
(* dropped_count 0, message_count N and expected sequence N, in the         *)
(* tracker and in both monitors, whatever was fed to the other sources in   *)
(* between; so each of its tuples advanced the expected sequence by one.    *)
C16_InOrderNoDrops ==
    \A id \in Sources :
       \A n \in 1 .. MaxTaken :
          SeqsOf(id) = InOrder(n) =>
             /\ trackers[id].dropped_count = 0
             /\ trackers[id].message_count = n
             /\ trackers[id].expected_seq = n
             /\ g_sensors_naive[id].dropped_count = 0
             /\ g_sensors_naive[id].message_count = n
             /\ g_sensors_naive[id].expected_seq = n
             /\ g_sensors_seen[id].dropped_count = 0
             /\ g_sensors_seen[id].message_count = n
             /\ g_sensors_seen[id].expected_seq = n

C16_Witness ==
    /\ Len(feed) = MaxTaken
    /\ feed[1].id = 0 /\ feed[2].id = 1 /\ feed[3].id = 0
    /\ SeqsOf(0) = InOrder(2)
    /\ SeqsOf(1) = InOrder(Len(FeedOf(1)))

(* C17: in the seen-set monitor a tuple whose sequence was already accepted *)
(* for its source changes nothing: the whole map, every counter, expected   *)
(* sequence and statistic of every source, is as before; the sequences      *)
(* 0, 1, 1 leave dropped_count at 0.                                        *)
C17_DuplicateDiscarded ==
    /\ [][(/\ feed' # feed
           /\ \E i \in 1 .. Len(feed) :
                 feed[i].id = msg'.id /\ feed[i].sequence = msg'.sequence)
          => g_sensors_seen' = g_sensors_seen]_vars
    /\ [](\A id \in Sources : SeqsOf(id) = <<0, 1, 1>> =>
             /\ g_sensors_seen[id].dropped_count = 0
             /\ g_sensors_seen[id].message_count = 2
             /\ g_sensors_seen[id].expected_seq = 2)

C17_Witness ==
    /\ SeqsOf(0) = <<0, 1, 1>>
    /\ feed[2].value # feed[3].value
    /\ g_sensors_seen[0].current_value = feed[2].value
    /\ g_sensors_naive[0].message_count = 3

(* C18: in the seen-set monitor a source has an entry once a tuple was      *)
(* taken for it, and its message_count is the size of seen_sequences, which *)
(* is the set of the distinct sequence numbers taken for it.                *)
C18_CountIsDistinct ==
    /\ DOMAIN g_sensors_seen = {id \in Sources : FeedOf(id) # << >>}
    /\ \A id \in DOMAIN g_sensors_seen :
          /\ g_sensors_seen[id].seen_sequences = Range(SeqsOf(id))
          /\ g_sensors_seen[id].message_count =
                Cardinality(g_sensors_seen[id].seen_sequences)

C18_Witness ==
    /\ Len(SeqsOf(0)) = 3
    /\ g_sensors_seen[0].message_count = 2
    /\ g_sensors_seen[0].seen_sequences = {2, 4}

(* C19, as stated: in neither monitor does a step decrease dropped_count or *)
(* message_count of a source.                                               *)
C19_CountersMonotone ==
    [][\A id \in DOMAIN g_sensors_naive :
          /\ g_sensors_naive'[id].dropped_count >= g_sensors_naive[id].dropped_count
          /\ g_sensors_naive'[id].message_count >= g_sensors_naive[id].message_count
          /\ g_sensors_seen'[id].dropped_count >= g_sensors_seen[id].dropped_count
          /\ g_sensors_seen'[id].message_count >= g_sensors_seen[id].message_count]_vars

(* the record of source id in the seen-set monitor after its first n tuples *)
RECURSIVE SeenAfter(_, _)
SeenAfter(id, n) ==
    IF n = 0 THEN SensorStateSeen
             ELSE SeenUpdate(SeenAfter(id, n - 1), FeedOf(id)[n])

(* the sum, over the first n tuples of source id, of received - expected    *)
(* for the accepted tuples with received > expected                         *)
RECURSIVE PositiveGaps(_, _)
PositiveGaps(id, n) ==
    IF n = 0 THEN 0
    ELSE LET st == SeenAfter(id, n - 1)
             m  == FeedOf(id)[n]
         IN  PositiveGaps(id, n - 1)
               + (IF /\ st.initialized
                     /\ m.sequence \notin st.seen_sequences
                     /\ m.sequence > st.expected_seq
                    THEN m.sequence - st.expected_seq
                    ELSE 0)

(* C20, as stated: in the seen-set monitor dropped_count of a source is the *)
(* sum of the positive gaps observed for it.                                *)
C20_DroppedIsGapSum ==
    \A id \in DOMAIN g_sensors_seen :
       g_sensors_seen[id].dropped_count = PositiveGaps(id, Len(FeedOf(id)))

----------------------------------------------------------------------------
(* Properties of the hub's shutdown, checked under FairSpecHub.             *)

Gen(i) == pc[SensorThread[i]]

AllGeneratorsExited == \A i \in SensorIds : Gen(i) = "gen_exit"

(* C11: the shutdown flag is cleared and the queue stopped only by main's   *)
(* duration check, with a duration configured, or by the signal handler,    *)
(* never in a step of a generator; and once main's duration check has       *)
(* started the shutdown, every generator leaves its loop and main joins     *)
(* them and exits.                                                          *)
C11_TimeoutShutdown ==
    /\ [][/\ g_running' # g_running =>
               \/ pc[Main] = "timeout" /\ timed /\ pc'[Main] = "stop_set"
               \/ pc[Sig] = "sig_flag" /\ pc'[Sig] = "stop_set"
          /\ stopped_' # stopped_ =>
               \/ pc[Main] = "stop_set" /\ pc'[Main] = "stop_notify"
               \/ pc[Sig] = "stop_set" /\ pc'[Sig] = "stop_notify"
          /\ pc'[Main] = "stop_set" /\ pc[Main] # "stop_set" =>
               pc[Main] = "timeout" /\ timed /\ ~g_running'
          /\ (g_running' # g_running \/ stopped_' # stopped_) =>
               \A i \in SensorIds : Gen(i)' = Gen(i)]_vars
    /\ (pc[Main] = "stop_set") ~> (pc[Main] = "exited" /\ AllGeneratorsExited)

C11_Witness ==
    /\ timed
    /\ pc[Main] = "stop_notify"
    /\ pc[Sig] = "idle"
    /\ \E i, j \in SensorIds : Gen(i) = "gen_sleep" /\ Gen(j) = "push_lock"

(* C12: once the flag is cleared it stays cleared, no generator starts      *)
(* another reading, so each pushes at most the one reading it had already   *)
(* built; and a generator that starts or wakes with the flag cleared        *)
(* leaves its loop in that step.                                            *)
C12_FlagObserved ==
    [][~g_running =>
          /\ ~g_running'
          /\ generated' = generated
          /\ \A i \in SensorIds :
                /\ Inserted(i)' <= Inserted(i) + 1
                /\ Inserted(i)' <= generated[i]
                /\ (Gen(i) \in {"gen_start", "gen_sleep"} /\ Gen(i)' # Gen(i))
                      => Gen(i)' = "gen_exit"]_vars

C12_Witness ==
    /\ ~g_running
    /\ \E i, j \in SensorIds :
          /\ Gen(i) = "gen_exit"
          /\ Gen(j) = "gen_sleep"
          /\ queue_ # <<>>
          /\ queue_[Len(queue_)] = Reading(j, generated[j])
          /\ pc[Main] \in {"join", "stop_set", "stop_notify"}

(* C13: a generator that has a reading to push leaves push() in two steps   *)
(* of its own, whether or not the queue is stopped: the reading is appended *)
(* once and the generator goes to its sleep; and once the queue is stopped  *)
(* every generator, pushing or not, reaches its loop condition and leaves.  *)
C13_PushNeverBlocks ==
    /\ [][\A i \in SensorIds :
             /\ (Gen(i) = "push_lock" /\ Gen(i)' # Gen(i)) =>
                   /\ Gen(i)' = "push_notify"
                   /\ queue_' = Append(queue_, Reading(i, generated[i]))
             /\ (Gen(i) = "push_notify" /\ Gen(i)' # Gen(i)) =>
                   /\ Gen(i)' = "gen_sleep"
                   /\ queue_' = queue_]_vars
    /\ stopped_ ~> AllGeneratorsExited

C13_Witness ==
    /\ stopped_
    /\ mutex_ = NoThread
    /\ \E i, j \in SensorIds : Gen(i) = "push_lock" /\ Gen(j) = "gen_exit"

----------------------------------------------------------------------------
(* Properties of the monitor's loop and dashboards, checked under SpecDash. *)

(* a payload on which the try block throws                                  *)
Unparsed(p) == p.kind \in {"text", "json"} /\ ~Decodes(p)

(* the source a payload names, if it names one                              *)
SourceOf(p) == IF Parses(p) /\ Has(p, "id") THEN Get(p, "id") ELSE -1

(* a step that is an iteration of the loop which reached the sleep          *)
Iterated == sleeps' # sleeps

(* C21: an iteration whose payload does not parse, or lacks one of id,      *)
(* value, timestamp, sequence, is reported and changes neither the state of *)
(* any source nor the set of sources, in either variant and in the tracker; *)
(* the loop keeps running, and every payload that decodes is processed,     *)
(* whether or not rejected payloads came before it.                         *)
C21_MalformedSkipped ==
    [][/\ (Iterated /\ Unparsed(payload')) =>
             /\ parse_errors' = parse_errors + 1
             /\ g_sensors_naive' = g_sensors_naive
             /\ g_sensors_seen' = g_sensors_seen
             /\ trackers' = trackers
             /\ feed' = feed
             /\ g_running' = g_running
       /\ (Iterated /\ Decodes(payload')) =>
             LET m == Decode(payload') IN
             /\ parse_errors' = parse_errors
             /\ feed' = Append(feed, m)
             /\ g_sensors_naive'[m.id].message_count =
                   Wrap(At(g_sensors_naive, m.id, SensorStateNaive).message_count + 1)
             /\ g_sensors_naive'[m.id].expected_seq = Wrap(m.sequence + 1)]_vars

C21_Witness ==
    /\ parse_errors > 0
    /\ payload.kind = "json"
    /\ ~Has(payload, "sequence")
    /\ Has(payload, "id")
    /\ Get(payload, "id") \notin DOMAIN g_sensors_naive
    /\ Get(payload, "id") \notin DOMAIN g_sensors_seen
    /\ feed # << >>

(* C22: whatever a step processes, a tuple of source A that decodes or a    *)
(* payload that does not, every source other than A that the monitor knows  *)
(* keeps its whole state, in both variants.                                 *)
C22_OthersUntouched ==
    [][/\ \A b \in DOMAIN g_sensors_naive :
             b # SourceOf(payload') =>
                 b \in DOMAIN g_sensors_naive' /\ g_sensors_naive'[b] = g_sensors_naive[b]
       /\ \A b \in DOMAIN g_sensors_seen :
             b # SourceOf(payload') =>
                 b \in DOMAIN g_sensors_seen' /\ g_sensors_seen'[b] = g_sensors_seen[b]]_vars

C22_Witness ==
    /\ DOMAIN g_sensors_naive = Sources
    /\ DOMAIN g_sensors_seen = Sources
    /\ Decodes(payload)
    /\ \E b \in Sources :
          /\ b # SourceOf(payload)
          /\ g_sensors_naive[b].message_count = 2
          /\ g_sensors_naive[SourceOf(payload)].last_timestamp
                > g_sensors_naive[b].last_timestamp

STALE_MS  == 500
RANGE_MIN == 19
RANGE_MAX == 31

(* C23: whenever the current time is more than 500 ms past the last         *)
(* timestamp seen for a source, the monitor has printed a staleness warning *)
(* for that source.                                                         *)
C23_StaleWarned ==
    \A id \in DOMAIN g_sensors_naive :
        now_ms - g_sensors_naive[id].last_timestamp > STALE_MS =>
            \E w \in warnings : w.kind = "stale" /\ w.id = id

(* C24: the monitor has printed a range warning for exactly those accepted  *)
(* tuples whose value is below 19 or above 31.                              *)
C24_RangeWarned ==
    \A i \in 1 .. Len(feed) :
        (feed[i].value < RANGE_MIN \/ feed[i].value > RANGE_MAX)
          <=> \E w \in warnings :
                 w.kind = "range" /\ w.id = feed[i].id /\ w.at = feed[i].timestamp

(* C25: a source with message_count > 0 has min_value <= current_value <=   *)
(* max_value, in both variants, whatever values were accepted.              *)
C25_CurrentWithinMinMax ==
    /\ \A id \in DOMAIN g_sensors_naive :
          g_sensors_naive[id].message_count > 0 =>
              /\ g_sensors_naive[id].min_value <= g_sensors_naive[id].current_value
              /\ g_sensors_naive[id].current_value <= g_sensors_naive[id].max_value
    /\ \A id \in DOMAIN g_sensors_seen :
          g_sensors_seen[id].message_count > 0 =>
              /\ g_sensors_seen[id].min_value <= g_sensors_seen[id].current_value
              /\ g_sensors_seen[id].current_value <= g_sensors_seen[id].max_value

C25_Witness ==
    \E id \in DOMAIN g_sensors_naive :
        /\ g_sensors_naive[id].message_count = 3
        /\ g_sensors_naive[id].min_value < g_sensors_naive[id].current_value
        /\ g_sensors_naive[id].current_value < g_sensors_naive[id].max_value
        /\ g_sensors_naive[id].max_value > 10^9

(* the values accepted for id by the naive monitor, in order                *)
ValuesOf(id) == [i \in 1 .. Len(FeedOf(id)) |-> FeedOf(id)[i].value]

RECURSIVE SumOf(_)
SumOf(q) == IF q = << >> THEN 0 ELSE q[1] + SumOf(Tail(q))

(* C26: for a source whose accepted values are v1..vn, n >= 1, the naive    *)
(* monitor holds message_count = n, sum_value = v1 + ... + vn, min_value    *)
(* the smallest and max_value the largest of them, and current_value = vn;  *)
(* the tracker holds the same count and sum.                                *)
C26_StatsAreAggregates ==
    \A id \in DOMAIN g_sensors_naive :
        LET vs == ValuesOf(id)
            st == g_sensors_naive[id]
        IN  Len(vs) >= 1 =>
              /\ st.message_count = Len(vs)
              /\ st.sum_value = SumOf(vs)
              /\ st.current_value = vs[Len(vs)]
              /\ st.min_value \in Range(vs)
              /\ \A v \in Range(vs) : st.min_value <= v
              /\ st.max_value \in Range(vs)
              /\ \A v \in Range(vs) : v <= st.max_value
              /\ trackers[id].message_count = Len(vs)
              /\ trackers[id].sum_value = SumOf(vs)

(* every average a dashboard, a final summary or the tracker has computed   *)
Averages ==
    {row.avg : row \in dashboard_naive \cup dashboard_seen \cup summary.naive \cup summary.seen}
      \cup {average.result}

(* C27: no average is a division by zero: each row shows sum_value divided  *)
(* by its message_count, which is not 0, and the tracker's get_average() is *)
(* sum_value / message_count for a tracker with messages and 0 for one      *)
(* without.                                                                 *)
C27_AverageGuarded ==
    /\ \A a \in Averages : a.den # 0
    /\ \A row \in dashboard_naive \cup dashboard_seen \cup summary.naive \cup summary.seen :
          row.avg.den = row.count
    /\ \A id \in DOMAIN g_sensors_naive :
          summary.printed =>
            \E row \in summary.naive :
                /\ row.id = id
                /\ row.avg = Quotient(g_sensors_naive[id].sum_value,
                                      g_sensors_naive[id].message_count)
    /\ average.of # -1 =>
          average.result =
              IF trackers[average.of].message_count > 0
                THEN Quotient(trackers[average.of].sum_value,
                              trackers[average.of].message_count)
                ELSE Zero

C27_Witness ==
    /\ average.of # -1
    /\ trackers[average.of].message_count = 0
    /\ average.result = Zero
    /\ summary.naive # {}
    /\ summary.seen # {}
    /\ dashboard_naive # {}
    /\ dashboard_seen # {}

(* g_sensors of either variant after an iteration on p, print_dashboard     *)
(* apart                                                                    *)
Updated(map, p, new, update(_, _)) ==
    IF Decodes(p)
      THEN Put(map, Decode(p).id, update(At(map, Decode(p).id, new), Decode(p)))
      ELSE map

(* the rows are those of the sources with data in map, each showing the     *)
(* fields of its source                                                     *)
SnapshotOf(rows, map) ==
    /\ {row.id : row \in rows} = {id \in DOMAIN map : map[id].message_count # 0}
    /\ \A row \in rows :
          /\ row.value = map[row.id].current_value
          /\ row.min = map[row.id].min_value
          /\ row.max = map[row.id].max_value
          /\ row.count = map[row.id].message_count
          /\ row.dropped = map[row.id].dropped_count
          /\ row.avg.num = map[row.id].sum_value

----------------------------------------------------------------------------
(* Properties of the logger, checked under SpecLog.                         *)

(* the samples taken so far that carry a tuple with all four fields         *)
WellFormedTaken == SelectSeq(taken, Decodes)

(* C29: the data rows written are, in order, the tuples of the well-formed  *)
(* payloads taken, one row each, and g_total_logged is their number; a      *)
(* payload that does not parse or lacks a field, and a NULL payload, add    *)
(* no row and no count.                                                     *)
C29_OneRowPerReading ==
    /\ Len(csv_file) = Len(WellFormedTaken)
    /\ g_total_logged = Len(WellFormedTaken)
    /\ \A i \in 1 .. Len(csv_file) :
          LET m == Decode(WellFormedTaken[i]) IN
          /\ csv_file[i].timestamp = m.timestamp
          /\ csv_file[i].sensor_id = m.id
          /\ csv_file[i].value = m.value
          /\ csv_file[i].sequence = m.sequence

C29_Witness ==
    /\ Len(taken) = 4
    /\ Len(csv_file) = 2
    /\ g_total_logged = 2
    /\ Decodes(taken[1])
    /\ taken[2] = NullPayload
    /\ Unparsed(taken[3]) /\ Has(taken[3], "id")
    /\ Decodes(taken[4])

(* C30: a row that has been written and not yet flushed was written no      *)
(* longer ago than the flush interval plus the longest pass through the     *)
(* loop, whatever samples are taken; and when main has returned every row   *)
(* is flushed.                                                              *)
C30_FlushBounded ==
    /\ \A i \in (flushed + 1) .. Len(csv_file) :
          log_ms - csv_file[i].received_at <= FLUSH_INTERVAL_MS + MaxLoopMs
    /\ exited => flushed = Len(csv_file)

----------------------------------------------------------------------------
(* Further properties of the monitor and the tracker, checked under SpecMon.*)

(* the sequences of q increase strictly                                     *)
Increasing(q) == \A i \in 1 .. Len(q) - 1 : q[i] < q[i + 1]

(* no sequence occurs twice in q                                            *)
NoRepeats(q) == \A i, j \in 1 .. Len(q) : q[i] = q[j] => i = j

(* message_count + dropped_count = expected_seq - first, in uint64_t        *)
Accounted(st, first) ==
    Wrap(st.message_count + st.dropped_count) = Wrap(st.expected_seq - first)

(* C39: a source whose tuples arrived with strictly increasing sequences    *)
(* has message_count + dropped_count = expected sequence - sequence of its  *)
(* first tuple, in the naive monitor, the seen-set monitor and the tracker. *)
C39_CountPlusDropped ==
    \A id \in DOMAIN g_sensors_naive :
        Increasing(SeqsOf(id)) =>
            /\ Accounted(g_sensors_naive[id], SeqsOf(id)[1])
            /\ Accounted(g_sensors_seen[id], SeqsOf(id)[1])
            /\ Accounted(trackers[id], SeqsOf(id)[1])

C39_Witness ==
    \E id \in DOMAIN g_sensors_naive :
        /\ Len(SeqsOf(id)) = 3
        /\ Increasing(SeqsOf(id))
        /\ SeqsOf(id)[1] > 0
        /\ g_sensors_naive[id].dropped_count > 2
        /\ g_sensors_naive[id].expected_seq = 0

(* the fields the tracker has                                               *)
TrackerView(st) ==
    [expected_seq |-> st.expected_seq, message_count |-> st.message_count,
     dropped_count |-> st.dropped_count, sum_value |-> st.sum_value]

(* C40: for every source and every sequence of tuples fed, the tracker and  *)
(* the naive monitor hold the same expected sequence, message_count,        *)
(* dropped_count and sum_value; the seen-set monitor holds them too when no *)
(* sequence number was repeated.                                            *)
C40_TrackerEquivalent ==
    /\ DOMAIN trackers = DOMAIN g_sensors_naive
    /\ DOMAIN trackers = DOMAIN g_sensors_seen
    /\ \A id \in DOMAIN trackers :
          /\ trackers[id] = TrackerView(g_sensors_naive[id])
          /\ NoRepeats(SeqsOf(id)) => trackers[id] = TrackerView(g_sensors_seen[id])

C40_Witness ==
    \E id \in DOMAIN trackers :
        /\ Len(SeqsOf(id)) = 3
        /\ NoRepeats(SeqsOf(id))
        /\ ~Increasing(SeqsOf(id))
        /\ SeqsOf(id)[1] > 0
        /\ trackers[id].dropped_count > 0
        /\ trackers[id] = TrackerView(g_sensors_seen[id])
        /\ trackers[id] = TrackerView(g_sensors_naive[id])

----------------------------------------------------------------------------
(* Further properties of the sensor hub, checked under SpecHub.             *)

(* C37: of two readings of one source that have been handed to the          *)
(* transport, the one generated, and so pushed, first carries the smaller   *)
(* sequence number, however the generators interleave.                      *)
C37_OrderPreserved ==
    \A a, b \in published :
        (a.id = b.id /\ a.n < b.n) => a.sequence < b.sequence

C37_Witness ==
    \E i, j \in SensorIds :
        /\ i # j
        /\ Cardinality(PublishedFor(i)) >= 2
        /\ PublishedFor(j) # {}
        /\ \E w \in PublishedFor(j) : w.sequence = 0

(* C38: the queue is stopped only with the shutdown flag cleared; so a      *)
(* pop() that has returned false finds main with g_running false, and main  *)
(* goes from its loop condition to the joins, never into pop() again.       *)
C38_StoppedImpliesFlag ==
    /\ [](stopped_ => ~g_running)
    /\ []((pc[Main] = "pop_done" /\ ~ret) => ~g_running)
    /\ [][(pc[Main] = "loop" /\ stopped_ /\ pc'[Main] # pc[Main]) => pc'[Main] = "join"]_vars

C38_Witness ==
    /\ stopped_
    /\ ~g_running
    /\ pc[Main] = "pop_done"
    /\ ~ret
    /\ ~timed

----------------------------------------------------------------------------
----------------------------------------------------------------------------
(* C35: an iteration in which dds_take hands over no sample changes no      *)
(* source's state in either variant, reports no error and no warning and    *)
(* leaves the loop running; a tuple taken in the iteration after it is      *)
(* processed as any other.  Checked under SpecDash.                         *)
C35_NoDataIsQuiet ==
    [][/\ (Iterated /\ payload' = NoSample) =>
             /\ g_sensors_naive' = g_sensors_naive
             /\ g_sensors_seen' = g_sensors_seen
             /\ parse_errors' = parse_errors
             /\ warnings' = warnings
             /\ feed' = feed
             /\ g_running' = g_running
       /\ (Iterated /\ payload = NoSample /\ Decodes(payload')) =>
             LET m == Decode(payload') IN
             /\ feed' = Append(feed, m)
             /\ g_sensors_naive'[m.id] =
                   NaiveUpdate(At(g_sensors_naive, m.id, SensorStateNaive), m)
             /\ g_sensors_seen'[m.id] =
                   SeenUpdate(At(g_sensors_seen, m.id, SensorStateSeen), m)]_vars

C35_Witness ==
    /\ sleeps = 3
    /\ Len(feed) = 1
    /\ parse_errors = 0
    /\ Decodes(payload)
    /\ g_running

(* C34: stop() is idempotent.  A stop() called after an earlier stop() has  *)
(* returned changes none of queue_, stopped_ and mutex_; and once stop()    *)
(* has been called twice or more, a push() or pop() begun after a stop()    *)
(* returned does what it does after a single stop(): the push appends its   *)
(* item, the pop never suspends, takes the front item of a non-empty queue  *)
(* and returns false on an empty one.                                       *)
C34_StopIdempotent ==
    /\ [][(stopReturned /\ pc[Stopper] \in {"stop_set", "stop_notify"}
              /\ pc'[Stopper] # pc[Stopper]) =>
             (queue_' = queue_ /\ stopped_' = stopped_ /\ stopped_ /\ mutex_' = mutex_)]_vars
    /\ [][\A p \in Producers :
             (stopCalls > 1 /\ afterStop[p] /\ pc[p] = "push_lock" /\ pc'[p] # pc[p]) =>
                 queue_' = Append(queue_, Item(p, pushCount[p]))]_vars
    /\ []((stopCalls > 1 /\ afterStop[Consumer]) => pc[Consumer] \notin Blocking)
    /\ [][(stopCalls > 1 /\ afterStop[Consumer] /\ pc[Consumer] \in {"pop_fail", "pop_take"}
              /\ pc'[Consumer] = "pop_done") =>
             IF queue_ = <<>> THEN ret' = FALSE /\ queue_' = queue_
                              ELSE ret' = TRUE /\ value' = Head(queue_) /\ queue_' = Tail(queue_)]_vars

(* Two stop() calls have returned, and a pop() begun after a stop() has     *)
(* returned false on the stopped, empty queue.                              *)
C34_Witness ==
    /\ stopCalls = 2
    /\ pc[Stopper] = "idle"
    /\ stopped_
    /\ afterStop[Consumer]
    /\ pc[Consumer] = "pop_done"
    /\ ~ret
    /\ queue_ = <<>>

(* C31: the header line is written exactly once, by the start-up of the     *)
(* logger and in front of every data row: until the header statement has    *)
(* run there is neither header nor row, from then on there is the one       *)
(* header with no row in front of it, and the only step that writes a       *)
(* header is the header statement, reached once.  Checked under SpecLog.    *)
C31_HeaderOnce ==
    /\ [](log_pc \in {"args", "open", "header"} => (csv_header = << >> /\ csv_file = << >>))
    /\ [](log_pc \in {"participant", "topic", "reader", "loop"} => csv_header = <<0>>)
    /\ [](csv_header \in {<< >>, <<0>>})
    /\ [](csv_file # << >> => csv_header = <<0>>)
    /\ [][csv_header' # csv_header => (log_pc = "header" /\ csv_header = << >>)]_vars

(* The logger has written two data rows under its one header and has        *)
(* returned 0.                                                              *)
C31_Witness ==
    /\ csv_header = <<0>>
    /\ Len(csv_file) >= 2
    /\ exited
    /\ exit_status = 0

(* C32: when the output file cannot be opened, main returns a non-zero      *)
(* status at once: no header is written, no DDS entity is created and no    *)
(* sample is taken.  Checked under SpecLog.                                 *)
C32_OpenFailureFatal ==
    csv_open = "failed" =>
        /\ exited
        /\ log_pc = "done"
        /\ exit_status \notin {0, NoStatus}
        /\ csv_header = << >>
        /\ csv_file = << >>
        /\ entities = {}
        /\ taken = << >>
        /\ g_total_logged = 0

(* The open has failed and main has returned 1.                             *)
C32_Witness ==
    /\ csv_open = "failed"
    /\ exited
    /\ exit_status = 1

(* C36: the draining loop of the pipeline test ends: once every message     *)
(* pushed has been processed the test reaches the statements after the      *)
(* loop.  Checked under FairSpecTest.                                       *)
C36_DrainTerminates == <>(pc[Tester] = "verify")

====
